---- MODULE Spec2Model ----
(***************************************************************************)
(* NeuralCube (src/script.js): the logical cube state (CubeState), the     *)
(* move generator and the blind-search solvers (bfsSolve, idaStarSearch).  *)
(*                                                                         *)
(* Coordinates.  The source uses cube-centred coordinates x - (order-1)/2, *)
(* which are half-integers for even orders.  Every coordinate of the model *)
(* is the source coordinate times two, so that it is an integer: order 2   *)
(* has the lattice {-1, 1} (source -0.5, 0.5), order 3 has {-2, 0, 2}      *)
(* (source -1, 0, 1).  Math.round(n * 2) / 2 is the identity on these      *)
(* values, and the tolerance tests |a - b| < 0.1 and |a - b| > 0.1 are     *)
(* equality and inequality.                                                *)
(*                                                                         *)
(* Faces.  A JavaScript object keeps its string keys in insertion order    *)
(* and a key assigned the value undefined is still a key.  A faces object  *)
(* is therefore a sequence of <<direction, value>> pairs, the value being  *)
(* a colour or Undef.                                                      *)
(***************************************************************************)
EXTENDS Integers, Sequences, FiniteSets, TLC

VARIABLES
    order,      \* CubeState.order of the cube under test
    pieces,     \* CubeState.pieces of the live state (array order kept)
    path,       \* the moves applied to the live state so far, oldest first
    hist,       \* hist[i]: a clone of the state before move path[i]
    pc,         \* "moves": applyMove requests; "bfs", "ida": a search runs;
                \* "done": the search has returned
    maxDepth,   \* the maxDepth the search was called with
    maxNodes,   \* the maxNodes bfsSolve was called with
    queue,      \* bfsSolve: the FIFO queue of {state, moves, depth}
    visited,    \* bfsSolve: visited; idaStarSearch: visitedThisIteration
    nodesExpanded,
    threshold,  \* idaStarSearch: threshold of the running iteration
    lastThreshold,
    stack,      \* idaStarSearch: the active calls of search(), root first
    result,     \* what the search returned
    yieldAt,    \* nodesExpanded at the search's last await of setTimeout(0),
                \* 0 before the first
    log,        \* the values earlier searches on this state returned
    moveQueue,  \* the global moveQueue
    isAnimating,\* STATE.isAnimating
    currentMove,\* the global currentMove, NoMove for null
    progress,   \* the global progress, in steps of CONFIG.animSpeed
    calls,      \* the calls of solve() made so far, oldest first
    enqueued,   \* every move pushed onto moveQueue since buildPuzzle ran last,
                \* in push order
    applied,    \* every move processQueue has applied to the currentCubeState
                \* that buildPuzzle made last
    requests,   \* the number of scramble, solve and puzzle-type requests made
                \* so far
    meshes,     \* allCubelets: userData.logicX, logicY, logicZ of every mesh
    activeGroup,\* the global activeGroup, as indices into allCubelets
    memoryStack,\* STATE.memoryStack
    clock,      \* idaStarSearch: Date.now() - startTime at the last reading
    iteration,  \* idaStarSearch: nodesExpanded and clock when the running
                \* pass of the while loop began, the f values of the calls
                \* it pruned and the encodings it expanded, in order
    objects,    \* the heap: the piece objects that exist, by reference
    handles     \* the CubeState instances under test, each the array of
                \* references it holds in this.pieces

vars == <<order, pieces, path, hist, pc, maxDepth, maxNodes, queue, visited,
          nodesExpanded, threshold, lastThreshold, stack, result, yieldAt, log,
          moveQueue, isAnimating, currentMove, progress, calls, enqueued,
          applied, requests, meshes, activeGroup, memoryStack, clock, iteration,
          objects, handles>>

searchVars == <<maxDepth, maxNodes, queue, visited, nodesExpanded, threshold,
                lastThreshold, stack, result, yieldAt, clock, iteration>>

uiVars == <<moveQueue, isAnimating, currentMove, progress, calls, enqueued,
            applied, requests, meshes, activeGroup, memoryStack>>

heapVars == <<objects, handles>>

\* ------------------------------------------------------------------ bounds
\* Longest sequence of arbitrary moves applied to an order-2 cube.
MaxMoves == 3
\* Longest sequence of arbitrary moves applied to a cube of a larger order.
MaxMovesLarge == 2
\* Longest run of one and the same move applied to a solved cube.
MaxRepeat == 4
\* Longest scramble of an order-2 cube handed to a search.
MaxScramble == 2
\* Longest scramble of a cube of a larger order handed to a search.
MaxScrambleLarge == 1
\* Most clicks on the scramble and solve buttons in one run of the page.
MaxRequests == 3

Orders == {2, 3}

MoveLimit(o) == IF o = 2 THEN MaxMoves ELSE MaxMovesLarge

ScrambleLimit(o) == IF o = 2 THEN MaxScramble ELSE MaxScrambleLarge

\* ------------------------------------------------------- values and helpers
Undef == "undef"
Axes == <<"x", "y", "z">>
Dirs == <<1, -1>>
Directions == {"+X", "-X", "+Y", "-Y", "+Z", "-Z"}
Colours == {"R", "L", "U", "D", "F", "B"}

\* Twice the source's this.offset = (order - 1) / 2.
Offset(o) == o - 1

\* The coordinates (times two) that exist on one axis, ascending.
Lattice(o) == [i \in 1..o |-> 2 * (i - 1) - Offset(o)]

LatticeSet(o) == {Lattice(o)[i] : i \in 1..o}

Abs(n) == IF n < 0 THEN -n ELSE n

RECURSIVE Concat(_)
Concat(ss) == IF ss = <<>> THEN <<>> ELSE Head(ss) \o Concat(Tail(ss))

\* faces[key], undefined when the key is absent.
FaceGet(faces, key) ==
    IF \E i \in DOMAIN faces : faces[i][1] = key
    THEN faces[CHOOSE i \in DOMAIN faces : faces[i][1] = key][2]
    ELSE Undef

\* faces[key] = value dropping the key when the value is undefined.
FaceSetDefined(faces, key, value) ==
    IF value = Undef
    THEN SelectSeq(faces, LAMBDA f : f[1] # key)
    ELSE IF \E i \in DOMAIN faces : faces[i][1] = key
    THEN [i \in DOMAIN faces |-> IF faces[i][1] = key THEN <<key, value>> ELSE faces[i]]
    ELSE Append(faces, <<key, value>>)

\* faces[key] = value: an existing key keeps its place, a new key is appended.
FaceSet(faces, key, value) ==
    IF \E i \in DOMAIN faces : faces[i][1] = key
    THEN [i \in DOMAIN faces |-> IF faces[i][1] = key THEN <<key, value>> ELSE faces[i]]
    ELSE Append(faces, <<key, value>>)

\* Object.keys(faces)
FaceKeys(faces) == {faces[i][1] : i \in DOMAIN faces}

\* ------------------------------------------------------------ constructor
\* The faces object the constructor builds for the piece at (ox, oy, oz).
SolvedFaces(o, ox, oy, oz) ==
    (IF ox = Offset(o) THEN <<(<<"+X", "R">>)>> ELSE <<>>)
    \o (IF ox = -Offset(o) THEN <<(<<"-X", "L">>)>> ELSE <<>>)
    \o (IF oy = Offset(o) THEN <<(<<"+Y", "U">>)>> ELSE <<>>)
    \o (IF oy = -Offset(o) THEN <<(<<"-Y", "D">>)>> ELSE <<>>)
    \o (IF oz = Offset(o) THEN <<(<<"+Z", "F">>)>> ELSE <<>>)
    \o (IF oz = -Offset(o) THEN <<(<<"-Z", "B">>)>> ELSE <<>>)

\* The piece pushed for loop indices x, y, z in 0..order-1.
NewPiece(o, x, y, z) ==
    LET ox == 2 * x - Offset(o)
        oy == 2 * y - Offset(o)
        oz == 2 * z - Offset(o)
    IN  [id |-> x * o * o + y * o + z,
         x |-> ox, y |-> oy, z |-> oz,
         originalPos |-> [x |-> ox, y |-> oy, z |-> oz],
         faces |-> SolvedFaces(o, ox, oy, oz)]

\* new CubeState(order).pieces: x outermost, z innermost, so the piece with
\* id n is element n + 1 of the array.
CubeState(o) ==
    [n \in 1..(o * o * o) |->
        NewPiece(o, (n - 1) \div (o * o), ((n - 1) \div o) % o, (n - 1) % o)]

\* clone(): a copy with the same pieces in the same array order.
clone(ps) ==
    [i \in DOMAIN ps |->
        [id |-> ps[i].id, x |-> ps[i].x, y |-> ps[i].y, z |-> ps[i].z,
         originalPos |-> ps[i].originalPos, faces |-> ps[i].faces]]

\* --------------------------------------------------------------- applyMove
\* RotatePosition with the x-axis branch leaving nz at p.z.
RotatePositionStaleZ(p, axis, dir) ==
    IF axis = "x"
    THEN <<p.x, IF dir = -1 THEN p.z ELSE -p.z, p.z>>
    ELSE IF axis = "y"
    THEN <<IF dir = -1 THEN -p.z ELSE p.z, p.y, IF dir = -1 THEN p.x ELSE -p.x>>
    ELSE IF axis = "z"
    THEN <<IF dir = -1 THEN p.y ELSE -p.y, IF dir = -1 THEN -p.x ELSE p.x, p.z>>
    ELSE <<p.x, p.y, p.z>>

\* The rotated position <<nx, ny, nz>> of a piece of the moving slice.
RotatePosition(p, axis, dir) ==
    IF axis = "x"
    THEN <<p.x, IF dir = -1 THEN p.z ELSE -p.z, IF dir = -1 THEN -p.y ELSE p.y>>
    ELSE IF axis = "y"
    THEN <<IF dir = -1 THEN -p.z ELSE p.z, p.y, IF dir = -1 THEN p.x ELSE -p.x>>
    ELSE IF axis = "z"
    THEN <<IF dir = -1 THEN p.y ELSE -p.y, IF dir = -1 THEN -p.x ELSE p.x, p.z>>
    ELSE <<p.x, p.y, p.z>>

\* FaceAssignments with the last assignment of every branch reading the
\* source of the first one again, so that one colour is copied twice and
\* one is lost.
FaceAssignmentsTwice(axis, dir) ==
    IF axis = "x"
    THEN IF dir = 1
         THEN << <<"+Y", "-Z">>, <<"-Z", "-Y">>, <<"-Y", "+Z">>, <<"+Z", "-Z">> >>
         ELSE << <<"+Y", "+Z">>, <<"+Z", "-Y">>, <<"-Y", "-Z">>, <<"-Z", "+Z">> >>
    ELSE IF axis = "y"
    THEN IF dir = 1
         THEN << <<"+Z", "-X">>, <<"-X", "-Z">>, <<"-Z", "+X">>, <<"+X", "-X">> >>
         ELSE << <<"+Z", "+X">>, <<"+X", "-Z">>, <<"-Z", "-X">>, <<"-X", "+X">> >>
    ELSE IF axis = "z"
    THEN IF dir = 1
         THEN << <<"+Y", "-X">>, <<"-X", "-Y">>, <<"-Y", "+X">>, <<"+X", "-X">> >>
         ELSE << <<"+Y", "+X">>, <<"+X", "-Y">>, <<"-Y", "-X">>, <<"-X", "+X">> >>
    ELSE <<>>

\* The four assignments p.faces[target] = oldFaces[source] of one move, as
\* <<target, source>> pairs in the order the source makes them.
FaceAssignments(axis, dir) ==
    IF axis = "x"
    THEN IF dir = 1
         THEN << <<"+Y", "-Z">>, <<"-Z", "-Y">>, <<"-Y", "+Z">>, <<"+Z", "+Y">> >>
         ELSE << <<"+Y", "+Z">>, <<"+Z", "-Y">>, <<"-Y", "-Z">>, <<"-Z", "+Y">> >>
    ELSE IF axis = "y"
    THEN IF dir = 1
         THEN << <<"+Z", "-X">>, <<"-X", "-Z">>, <<"-Z", "+X">>, <<"+X", "+Z">> >>
         ELSE << <<"+Z", "+X">>, <<"+X", "-Z">>, <<"-Z", "-X">>, <<"-X", "+Z">> >>
    ELSE IF axis = "z"
    THEN IF dir = 1
         THEN << <<"+Y", "-X">>, <<"-X", "-Y">>, <<"-Y", "+X">>, <<"+X", "+Y">> >>
         ELSE << <<"+Y", "+X">>, <<"+X", "-Y">>, <<"-Y", "-X">>, <<"-X", "+Y">> >>
    ELSE <<>>

RECURSIVE AssignFaces(_, _, _)
AssignFaces(faces, oldFaces, assignments) ==
    IF assignments = <<>> THEN faces
    ELSE AssignFaces(FaceSet(faces, Head(assignments)[1],
                             FaceGet(oldFaces, Head(assignments)[2])),
                     oldFaces, Tail(assignments))

\* The faces object of a piece of the moving slice after the move.
RotateFaces(faces, axis, dir) ==
    AssignFaces(faces, faces, FaceAssignments(axis, dir))

\* p[axis] for the axes x, y and z
Coord(p, axis) == IF axis = "x" THEN p.x ELSE IF axis = "y" THEN p.y ELSE p.z

\* InSlice comparing the coordinate with the slice scaled by the mesh
\* spacing instead of the slice itself.
InSliceScaled(p, axis, slice) == Abs(Coord(p, axis) - 2 * slice) = 0

\* Math.abs(p[axis] - slice) < eps; p[axis] is undefined for an axis other
\* than x, y and z, the difference is NaN and the comparison is false.
InSlice(p, axis, slice) ==
    axis \in {"x", "y", "z"} /\ Abs(Coord(p, axis) - slice) = 0

\* MovePiece without the test of the slice: every piece is turned.
MovePieceAlways(p, axis, slice, dir) ==
    LET n == RotatePosition(p, axis, dir)
    IN  [p EXCEPT !.x = n[1], !.y = n[2], !.z = n[3],
                  !.faces = RotateFaces(p.faces, axis, dir)]

\* The body of the forEach callback for one piece.
MovePiece(p, axis, slice, dir) ==
    IF InSlice(p, axis, slice)
    THEN LET n == RotatePosition(p, axis, dir)
         IN  [p EXCEPT !.x = n[1], !.y = n[2], !.z = n[3],
                       !.faces = RotateFaces(p.faces, axis, dir)]
    ELSE p

\* applyMove(axis, slice, dir) on the pieces array ps.
applyMove(ps, axis, slice, dir) ==
    [i \in DOMAIN ps |-> MovePiece(ps[i], axis, slice, dir)]

\* ---------------------------------------------------------------- isSolved
\* The expectedFaces object isSolved builds from the current position.
ExpectedFaces(o, p) == SolvedFaces(o, p.x, p.y, p.z)

\* One iteration of the loop of isSolved: TRUE when it does not return false.
PieceSolved(o, p) ==
    /\ p.x = p.originalPos.x
    /\ p.y = p.originalPos.y
    /\ p.z = p.originalPos.z
    /\ Cardinality(FaceKeys(ExpectedFaces(o, p))) = Cardinality(FaceKeys(p.faces))
    /\ \A key \in FaceKeys(ExpectedFaces(o, p)) :
          FaceGet(p.faces, key) = FaceGet(ExpectedFaces(o, p), key)

isSolved(o, ps) == \A i \in DOMAIN ps : PieceSolved(o, ps[i])

\* ------------------------------------------------------------------ encode
\* `${dir}:${color || 'N'}` for each entry of Object.entries(p.faces).
FaceStr(faces) ==
    [i \in DOMAIN faces |->
        <<faces[i][1], IF faces[i][2] = Undef THEN "N" ELSE faces[i][2]>>]

\* Token built from the piece's identity alone: the id and originalPos in
\* place of the current position, and no faceStr.
TokenOfOrigin(p) == <<p.id, p.originalPos.x, p.originalPos.y, p.originalPos.z>>

\* `${p.id}:${p.x},${p.y},${p.z},${faceStr}`: the fields in their order.
Token(p) == <<p.id, p.x, p.y, p.z, FaceStr(p.faces)>>

\* The characters of the decimal numeral of n followed by ':', as char codes:
\* the part of a token that decides where Array.prototype.sort puts it.
RECURSIVE Numeral(_)
Numeral(n) == IF n < 10 THEN <<48 + n>> ELSE Append(Numeral(n \div 10), 48 + (n % 10))

TokenPrefix(t) == Append(Numeral(t[1]), 58)

\* a < b in the order sort() uses on strings (UTF-16 code units).
StrLess(a, b) ==
    \E k \in 1..Len(a) :
        /\ \A j \in 1..(k - 1) : j <= Len(b) /\ a[j] = b[j]
        /\ k <= Len(b)
        /\ a[k] < b[k]

\* tokens.sort(): ascending in the string order; no two tokens share an id,
\* so each token goes to the place after the tokens that sort before it.
SortTokens(tokens) ==
    LET n == Len(tokens)
        prefix == SubSeq([i \in 1..n |-> TokenPrefix(tokens[i])], 1, n)
        before == SubSeq([i \in 1..n |->
                            Cardinality({j \in 1..n : StrLess(prefix[j], prefix[i])})],
                         1, n)
    IN  SubSeq([k \in 1..n |-> tokens[CHOOSE i \in 1..n : before[i] = k - 1]], 1, n)

\* encode(): the sorted tokens; join('|') keeps them apart.
encode(ps) == SortTokens(SubSeq([i \in DOMAIN ps |-> Token(ps[i])], 1, Len(ps)))

\* --------------------------------------------------------------- heuristic
PieceCost(o, p) ==
    IF p.x # p.originalPos.x \/ p.y # p.originalPos.y \/ p.z # p.originalPos.z
    THEN 1
    ELSE (IF p.x = Offset(o) /\ FaceGet(p.faces, "+X") # "R" THEN 1 ELSE 0)
         + (IF p.x = -Offset(o) /\ FaceGet(p.faces, "-X") # "L" THEN 1 ELSE 0)
         + (IF p.y = Offset(o) /\ FaceGet(p.faces, "+Y") # "U" THEN 1 ELSE 0)
         + (IF p.y = -Offset(o) /\ FaceGet(p.faces, "-Y") # "D" THEN 1 ELSE 0)
         + (IF p.z = Offset(o) /\ FaceGet(p.faces, "+Z") # "F" THEN 1 ELSE 0)
         + (IF p.z = -Offset(o) /\ FaceGet(p.faces, "-Z") # "B" THEN 1 ELSE 0)

RECURSIVE SumCost(_, _, _)
SumCost(o, ps, i) == IF i = 0 THEN 0 ELSE PieceCost(o, ps[i]) + SumCost(o, ps, i - 1)

\* Math.ceil(cost / 4)
heuristic(o, ps) == (SumCost(o, ps, Len(ps)) + 3) \div 4

\* ---------------------------------------------------------- move generator
Move(axis, slice, dir) == [axis |-> axis, slice |-> slice, dir |-> dir]

\* generateLegalMoves without the skip of the centre slice.
generateLegalMovesAll(o) ==
    Concat([a \in 1..3 |->
        Concat([s \in 1..o |->
            [d \in 1..2 |-> Move(Axes[a], Lattice(o)[s], Dirs[d])]])])

\* generateLegalMoves(order): axes, then slices ascending, then dirs 1, -1;
\* the slice 0 of an odd order is skipped.
generateLegalMoves(o) ==
    Concat([a \in 1..3 |->
        Concat([s \in 1..o |->
            IF o % 2 = 1 /\ Lattice(o)[s] = 0
            THEN <<>>
            ELSE [d \in 1..2 |-> Move(Axes[a], Lattice(o)[s], Dirs[d])]])])

\* lastMove is NoMove where the source passes undefined or null.
NoMove == [axis |-> "none", slice |-> 0, dir |-> 0]

IsInverse(m, lastMove) ==
    m.axis = lastMove.axis /\ m.slice = lastMove.slice /\ m.dir = -lastMove.dir

\* filterMoves returning its argument whatever lastMove is.
filterMovesKeepAll(moves, lastMove) ==
    moves

\* filterMoves(moves, lastMove)
filterMoves(moves, lastMove) ==
    IF lastMove = NoMove THEN moves
    ELSE SelectSeq(moves, LAMBDA m : ~IsInverse(m, lastMove))

\* Every move with a slice on the lattice: what scramble() draws from and
\* what a caller of applyMove may request.
LatticeMoves(o) ==
    {Move(Axes[a], s, Dirs[d]) : a \in 1..3, s \in LatticeSet(o), d \in 1..2}

\* ------------------------------------------------------- the state machine
NoResult == [returned |-> FALSE]

SearchIdle ==
    /\ maxDepth = 0
    /\ maxNodes = 0
    /\ queue = <<>>
    /\ visited = {}
    /\ nodesExpanded = 0
    /\ threshold = 0
    /\ lastThreshold = -1
    /\ stack = <<>>
    /\ result = NoResult
    /\ yieldAt = 0
    /\ clock = 0
    /\ iteration = [nodes |-> 0, time |-> 0, pruned |-> {}, expanded |-> <<>>]

\* The userData of the meshes buildPuzzle(order) creates, in the order of
\* allCubelets: the loops and the coordinates are those of the constructor of
\* CubeState, and pieceId is the id of the piece at the same place.
Meshes(o) ==
    [n \in 1..(o * o * o) |->
        [pieceId |-> CubeState(o)[n].id,
         logicX |-> CubeState(o)[n].x,
         logicY |-> CubeState(o)[n].y,
         logicZ |-> CubeState(o)[n].z]]

\* The globals of the page as the script leaves them when it has loaded.
UiIdle ==
    /\ moveQueue = <<>>
    /\ isAnimating = FALSE
    /\ currentMove = NoMove
    /\ progress = 0
    /\ calls = <<>>
    /\ enqueued = <<>>
    /\ applied = <<>>
    /\ requests = 0
    /\ meshes = Meshes(order)
    /\ activeGroup = {}
    /\ memoryStack = <<>>

\* No CubeState instance is under test.
HeapIdle ==
    /\ objects = <<>>
    /\ handles = <<>>

Init ==
    /\ order \in Orders
    /\ pieces = CubeState(order)
    /\ path = <<>>
    /\ hist = <<>>
    /\ pc = "moves"
    /\ SearchIdle
    /\ log = <<>>
    /\ UiIdle
    /\ HeapIdle

\* The whole path so far is the move m repeated.
OnlyRepeats(m) == \A i \in DOMAIN path : path[i] = m

\* One external applyMove request on the live state; the state before the
\* move is kept as a clone.
ApplyMove ==
    /\ pc = "moves"
    /\ \E m \in LatticeMoves(order) :
          /\ \/ Len(path) < MoveLimit(order)
             \/ Len(path) < MaxRepeat /\ OnlyRepeats(m)
          /\ pieces' = applyMove(pieces, m.axis, m.slice, m.dir)
          /\ path' = Append(path, m)
          /\ hist' = Append(hist, clone(pieces))
    /\ UNCHANGED <<order, pc, log>>
    /\ UNCHANGED searchVars
    /\ UNCHANGED uiVars
    /\ UNCHANGED heapVars

Next == ApplyMove

Spec == Init /\ [][Next]_vars

\* ------------------------------------------------- the move system alone
\* generateLegalMoves and filterMoves called on their own: order is the
\* argument of generateLegalMoves, path the array last returned and log the
\* lastMove arguments of the filterMoves calls made on it.

\* Largest order generateLegalMoves is called with.
MaxOrder == 5
\* Most calls of filterMoves made one after the other.
MaxFilters == 2

InitMoves ==
    /\ order \in 1..MaxOrder
    /\ pieces = CubeState(order)
    /\ path = <<>>
    /\ hist = <<>>
    /\ pc = "moves"
    /\ SearchIdle
    /\ log = <<>>
    /\ UiIdle
    /\ HeapIdle

\* const allMoves = generateLegalMoves(order)
Generate ==
    /\ pc = "moves"
    /\ path' = generateLegalMoves(order)
    /\ pc' = "generated"
    /\ UNCHANGED <<order, pieces, hist, log>>
    /\ UNCHANGED searchVars
    /\ UNCHANGED uiVars
    /\ UNCHANGED heapVars

\* moves = filterMoves(moves, lastMove), lastMove being undefined or any
\* move with a slice on the lattice.
Filter ==
    /\ pc = "generated"
    /\ Len(log) < MaxFilters
    /\ \E lastMove \in LatticeMoves(order) \cup {NoMove} :
          /\ path' = filterMoves(path, lastMove)
          /\ log' = Append(log, lastMove)
    /\ UNCHANGED <<order, pieces, hist, pc>>
    /\ UNCHANGED searchVars
    /\ UNCHANGED uiVars
    /\ UNCHANGED heapVars

NextMoves ==
    \/ Generate
    \/ Filter

SpecMoves == InitMoves /\ [][NextMoves]_vars

\* ------------------------------------------------------------ the searches
\* generateNeighbors(state, lastMove) of solveWithBFS: one {state, move} per
\* move that filterMoves keeps, the state a clone with the move applied.
generateNeighbors(o, ps, lastMove) ==
    LET filteredMoves == filterMoves(generateLegalMoves(o), lastMove)
    IN  [i \in DOMAIN filteredMoves |->
            [state |-> applyMove(clone(ps), filteredMoves[i].axis,
                                 filteredMoves[i].slice, filteredMoves[i].dir),
             move |-> filteredMoves[i]]]

\* moves[moves.length - 1], undefined (NoMove) for the empty list.
LastMoveOf(moves) == IF moves = <<>> THEN NoMove ELSE moves[Len(moves)]

\* The values of maxDepth and maxNodes a caller passes to bfsSolve.
BfsOptions(o) ==
    {[maxDepth |-> 0, maxNodes |-> 100000], [maxDepth |-> 1, maxNodes |-> 100000],
     [maxDepth |-> 2, maxNodes |-> 5], [maxDepth |-> 10, maxNodes |-> 20]}
    \cup {[maxDepth |-> 1, maxNodes |-> 5]}

\* The options of the long runs, which are made for order 2 and on the
\* shorter scrambles only.
BfsLongRuns(o) ==
    IF o = 2 /\ Len(path) < MaxScramble
    THEN {[maxDepth |-> 2, maxNodes |-> 100000], [maxDepth |-> 3, maxNodes |-> 200]}
    ELSE {}

\* The two starting specifications of the searches begin as Init does.
InitSearch == Init

\* The moves a scramble is made of: the outer-slice moves x/max/+1,
\* y/min/-1 and z/max/+1 (for order 3: x/1/+1, y/-1/-1, z/1/+1), each of
\* them a member of generateLegalMoves(order).
ScrambleMoves(o) ==
    <<Move("x", Offset(o), 1), Move("y", -Offset(o), -1), Move("z", Offset(o), 1)>>

\* One move of the scramble that precedes a search.
Scramble ==
    /\ pc = "moves"
    /\ Len(path) < ScrambleLimit(order)
    /\ \E i \in DOMAIN ScrambleMoves(order) :
          LET m == ScrambleMoves(order)[i]
          IN  /\ pieces' = applyMove(pieces, m.axis, m.slice, m.dir)
              /\ path' = Append(path, m)
              /\ hist' = Append(hist, clone(pieces))
    /\ UNCHANGED <<order, pc, log>>
    /\ UNCHANGED searchVars
    /\ UNCHANGED uiVars
    /\ UNCHANGED heapVars

\* ------------------------------------------------- requests of any kind
\* Longest sequence of applyMove requests that may name a move off the cube.
MaxRequestedMoves == 3

\* Moves that are no moves of the cube: an axis that is none of x, y and z,
\* a slice beyond the outermost layer, and a slice between two layers
\* (source coordinates offset + 1 and offset + 0.5).
OtherMoves(o) ==
    {Move("w", Offset(o), 1), Move("x", Offset(o) + 2, 1), Move("y", Offset(o) + 1, -1)}

\* What a caller may pass to applyMove: nothing in the source restricts it.
RequestedMoves(o) == {ScrambleMoves(o)[i] : i \in DOMAIN ScrambleMoves(o)} \cup OtherMoves(o)

\* applyMove(axis, slice, dir) called with any request.  The method has no
\* throw and no return value: every call returns normally, and path records
\* it as carried out.
ApplyRequested ==
    /\ pc = "moves"
    /\ Len(path) < MaxRequestedMoves
    /\ \E m \in RequestedMoves(order) :
          /\ pieces' = applyMove(pieces, m.axis, m.slice, m.dir)
          /\ path' = Append(path, m)
          /\ hist' = Append(hist, clone(pieces))
    /\ UNCHANGED <<order, pc, log>>
    /\ UNCHANGED searchVars
    /\ UNCHANGED uiVars
    /\ UNCHANGED heapVars

NextRequests == ApplyRequested

SpecRequests == Init /\ [][NextRequests]_vars

\* bfsSolve(startState, isSolved, generateNeighbors, {maxDepth, maxNodes}) up
\* to the loop: the queue holds the start node and visited its encoding.
BfsStart ==
    /\ pc = "moves"
    /\ \E options \in BfsOptions(order) \cup BfsLongRuns(order) :
          /\ maxDepth' = options.maxDepth
          /\ maxNodes' = options.maxNodes
    /\ queue' = <<[state |-> clone(pieces), moves |-> <<>>, depth |-> 0]>>
    /\ visited' = {encode(pieces)}
    /\ nodesExpanded' = 0
    /\ yieldAt' = 0
    /\ pc' = "bfs"
    /\ UNCHANGED <<order, pieces, path, hist, threshold, lastThreshold, stack, result,
                   log>>
    /\ UNCHANGED uiVars
    /\ UNCHANGED <<clock, iteration>>
    /\ UNCHANGED heapVars

\* BfsEnqueue with queue.unshift in place of queue.push: a new node goes to
\* the front of the queue.
RECURSIVE BfsEnqueueFront(_, _, _)
BfsEnqueueFront(acc, node, neighbors) ==
    IF neighbors = <<>> THEN acc
    ELSE LET encoded == encode(Head(neighbors).state)
         IN  IF encoded \notin acc.visited
             THEN BfsEnqueueFront(
                    [queue |-> <<[state |-> Head(neighbors).state,
                                  moves |-> Append(node.moves, Head(neighbors).move),
                                  depth |-> node.depth + 1]>> \o acc.queue,
                     visited |-> acc.visited \cup {encoded},
                     nodesExpanded |-> acc.nodesExpanded + 1],
                    node, Tail(neighbors))
             ELSE BfsEnqueueFront(acc, node, Tail(neighbors))

\* The for loop over the neighbours of a dequeued node: acc is
\* [queue, visited, nodesExpanded].
RECURSIVE BfsEnqueue(_, _, _)
BfsEnqueue(acc, node, neighbors) ==
    IF neighbors = <<>> THEN acc
    ELSE LET encoded == encode(Head(neighbors).state)
         IN  IF encoded \notin acc.visited
             THEN BfsEnqueue(
                    [queue |-> Append(acc.queue,
                                  [state |-> Head(neighbors).state,
                                   moves |-> Append(node.moves, Head(neighbors).move),
                                   depth |-> node.depth + 1]),
                     visited |-> acc.visited \cup {encoded},
                     nodesExpanded |-> acc.nodesExpanded + 1],
                    node, Tail(neighbors))
             ELSE BfsEnqueue(acc, node, Tail(neighbors))

\* Returned with stats.depth taken from the length of moves on failure too.
ReturnedDepthOfMoves(found, moves, n, cause) ==
    [returned |-> TRUE, found |-> found, moves |-> moves,
     depth |-> Len(moves), nodesExpanded |-> n, cause |-> cause]

\* The value a search returns: {moves, stats: {depth, nodesExpanded}}.  A
\* moves of null is found = FALSE with the empty list.  cause is no part of
\* the returned value: it records which statement made the search return.
Returned(found, moves, n, cause) ==
    [returned |-> TRUE, found |-> found, moves |-> moves,
     depth |-> IF found THEN Len(moves) ELSE -1, nodesExpanded |-> n,
     cause |-> cause]

BfsReturn(found, moves, cause) ==
    /\ result' = Returned(found, moves, nodesExpanded, cause)
    /\ pc' = "done"

\* The dequeued node is solved: return its moves.
BfsFound ==
    /\ pc = "bfs" /\ queue # <<>>
    /\ isSolved(order, Head(queue).state)
    /\ BfsReturn(TRUE, Head(queue).moves, "found")
    /\ queue' = Tail(queue)
    /\ UNCHANGED <<order, pieces, path, hist, maxDepth, maxNodes, visited,
                   nodesExpanded, threshold, lastThreshold, stack, yieldAt, log>>
    /\ UNCHANGED uiVars
    /\ UNCHANGED <<clock, iteration>>
    /\ UNCHANGED heapVars

\* if (depth >= maxDepth) continue
BfsDepthLimit ==
    /\ pc = "bfs" /\ queue # <<>>
    /\ ~isSolved(order, Head(queue).state)
    /\ Head(queue).depth >= maxDepth
    /\ queue' = Tail(queue)
    /\ UNCHANGED <<order, pieces, path, hist, pc, maxDepth, maxNodes, visited,
                   nodesExpanded, threshold, lastThreshold, stack, result, yieldAt,
                   log>>
    /\ UNCHANGED uiVars
    /\ UNCHANGED <<clock, iteration>>
    /\ UNCHANGED heapVars

\* if (nodesExpanded >= maxNodes) break, and the return after the loop.
BfsNodeLimit ==
    /\ pc = "bfs" /\ queue # <<>>
    /\ ~isSolved(order, Head(queue).state)
    /\ Head(queue).depth < maxDepth
    /\ nodesExpanded >= maxNodes
    /\ BfsReturn(FALSE, <<>>, "nodes")
    /\ queue' = Tail(queue)
    /\ UNCHANGED <<order, pieces, path, hist, maxDepth, maxNodes, visited,
                   nodesExpanded, threshold, lastThreshold, stack, yieldAt, log>>
    /\ UNCHANGED uiVars
    /\ UNCHANGED <<clock, iteration>>
    /\ UNCHANGED heapVars

\* const reportInterval = nodesExpanded < 1000 ? 100 : 1000
reportInterval(n) == IF n < 1000 THEN 100 ELSE 1000

\* BfsExpand without the test of the depth: a node at maxDepth or deeper is
\* expanded too.
BfsExpandAnyDepth ==
    /\ pc = "bfs" /\ queue # <<>>
    /\ ~isSolved(order, Head(queue).state)
    /\ nodesExpanded < maxNodes
    /\ LET node == Head(queue)
           acc == BfsEnqueue([queue |-> Tail(queue), visited |-> visited,
                              nodesExpanded |-> nodesExpanded], node,
                             generateNeighbors(order, node.state, LastMoveOf(node.moves)))
       IN  /\ queue' = acc.queue
           /\ visited' = acc.visited
           /\ nodesExpanded' = acc.nodesExpanded
           /\ yieldAt' = IF acc.nodesExpanded % reportInterval(acc.nodesExpanded) = 0
                          THEN acc.nodesExpanded ELSE yieldAt
    /\ UNCHANGED <<order, pieces, path, hist, pc, maxDepth, maxNodes,
                   threshold, lastThreshold, stack, result, log>>
    /\ UNCHANGED uiVars
    /\ UNCHANGED <<clock, iteration>>
    /\ UNCHANGED heapVars

\* The dequeued node is expanded: every neighbour not yet visited is
\* marked, queued and counted; the loop then awaits setTimeout(0) when the
\* count is a multiple of reportInterval (onProgress is never null in
\* solveWithBFS).
BfsExpand ==
    /\ pc = "bfs" /\ queue # <<>>
    /\ ~isSolved(order, Head(queue).state)
    /\ Head(queue).depth < maxDepth
    /\ nodesExpanded < maxNodes
    /\ LET node == Head(queue)
           acc == BfsEnqueue([queue |-> Tail(queue), visited |-> visited,
                              nodesExpanded |-> nodesExpanded], node,
                             generateNeighbors(order, node.state, LastMoveOf(node.moves)))
       IN  /\ queue' = acc.queue
           /\ visited' = acc.visited
           /\ nodesExpanded' = acc.nodesExpanded
           /\ yieldAt' = IF acc.nodesExpanded % reportInterval(acc.nodesExpanded) = 0
                          THEN acc.nodesExpanded ELSE yieldAt
    /\ UNCHANGED <<order, pieces, path, hist, pc, maxDepth, maxNodes,
                   threshold, lastThreshold, stack, result, log>>
    /\ UNCHANGED uiVars
    /\ UNCHANGED <<clock, iteration>>
    /\ UNCHANGED heapVars

\* The queue is empty: the loop ends and bfsSolve returns moves: null.
BfsExhausted ==
    /\ pc = "bfs" /\ queue = <<>>
    /\ BfsReturn(FALSE, <<>>, "exhausted")
    /\ UNCHANGED <<order, pieces, path, hist, maxDepth, maxNodes, queue, visited,
                   nodesExpanded, threshold, lastThreshold, stack, yieldAt, log>>
    /\ UNCHANGED uiVars
    /\ UNCHANGED <<clock, iteration>>
    /\ UNCHANGED heapVars

NextBFS ==
    \/ Scramble
    \/ BfsStart
    \/ BfsFound
    \/ BfsDepthLimit
    \/ BfsNodeLimit
    \/ BfsExpand
    \/ BfsExhausted

SpecBFS == InitSearch /\ [][NextBFS]_vars

\* ----------------------------------------------------------- idaStarSearch
\* const maxNodes = 1000000 of idaStarSearch.
IdaMaxNodes == 1000000
\* const maxThreshold = 15
MaxThreshold == 15
\* Infinity, above every f = g + h.
Infinity == 1000000000
\* const maxTime = 5000, in milliseconds
MaxTime == 5000

\* The time that passes between two readings of Date.now(): none that can
\* be measured, or half of maxTime.
Elapses == {0, MaxTime \div 2}

\* The record kept of the start of a pass of the while loop.
IterationAt(n, t) == [nodes |-> n, time |-> t, pruned |-> {}, expanded |-> <<>>]

\* The values of maxDepth a caller passes to idaStarSearch.
IdaMaxDepths == {0, 1, 2}

\* Math.min keeping its first argument.
MinFirst(a, b) == a

Min(a, b) == IF a < b THEN a ELSE b

\* search() without the look into visitedThisIteration.
SearchEntryUnseen(o, ps, g, n, seen, late) ==
    IF n >= IdaMaxNodes
    THEN [kind |-> "limit", nextThreshold |-> Infinity, limitReached |-> "nodes"]
    ELSE IF late
    THEN [kind |-> "limit", nextThreshold |-> Infinity, limitReached |-> "time"]
    ELSE IF g + heuristic(o, ps) > threshold
    THEN [kind |-> "pruned", nextThreshold |-> g + heuristic(o, ps), limitReached |-> "none"]
    ELSE IF isSolved(o, ps)
    THEN [kind |-> "found", nextThreshold |-> Infinity, limitReached |-> "none"]
    ELSE IF g >= maxDepth
    THEN [kind |-> "leaf", nextThreshold |-> Infinity, limitReached |-> "none"]
    ELSE [kind |-> "expand", nextThreshold |-> Infinity, limitReached |-> "none"]

\* search(node, g, threshold, ...) from its first statement to the point
\* where it either returns or starts on its neighbours.  n is nodesExpanded
\* after the increment, seen is visitedThisIteration, late tells whether
\* Date.now() - startTime has reached maxTime.
SearchEntry(o, ps, g, n, seen, late) ==
    IF n >= IdaMaxNodes
    THEN [kind |-> "limit", nextThreshold |-> Infinity, limitReached |-> "nodes"]
    ELSE IF late
    THEN [kind |-> "limit", nextThreshold |-> Infinity, limitReached |-> "time"]
    ELSE IF g + heuristic(o, ps) > threshold
    THEN [kind |-> "pruned", nextThreshold |-> g + heuristic(o, ps), limitReached |-> "none"]
    ELSE IF isSolved(o, ps)
    THEN [kind |-> "found", nextThreshold |-> Infinity, limitReached |-> "none"]
    ELSE IF g >= maxDepth
    THEN [kind |-> "leaf", nextThreshold |-> Infinity, limitReached |-> "none"]
    ELSE IF encode(ps) \in seen
    THEN [kind |-> "seen", nextThreshold |-> Infinity, limitReached |-> "none"]
    ELSE [kind |-> "expand", nextThreshold |-> Infinity, limitReached |-> "none"]

\* if (nodesExpanded % 50000 === 0 && onProgress) await setTimeout(0): the
\* statement is reached by the calls that pass the g >= maxDepth test, and
\* onProgress is never null in solveWithBFS.
IdaYieldInterval == 50000

YieldsAt(e, n) ==
    IF e.kind \in {"seen", "expand"} /\ n % IdaYieldInterval = 0 THEN n ELSE yieldAt

\* The record of the running iteration after a call of search() on the
\* state ps went as e says: a call that returns at f > threshold adds its f
\* to pruned, a call that reaches visitedThisIteration.add(encoded) adds the
\* encoding to expanded.
Noted(it, e, ps) ==
    [it EXCEPT !.pruned = IF e.kind = "pruned" THEN @ \cup {e.nextThreshold} ELSE @,
               !.expanded = IF e.kind = "expand" THEN Append(@, encode(ps)) ELSE @]

\* A call of search() that is working through its neighbours.
Frame(ps, g, moves, lastMove, neighbors) ==
    [state |-> ps, g |-> g, path |-> moves, lastMove |-> lastMove,
     todo |-> neighbors, minThreshold |-> Infinity]

IdaReturn(found, moves, n, cause) ==
    /\ result' = Returned(found, moves, n, cause)
    /\ pc' = "done"
    /\ stack' = <<>>

\* The while loop after the root call returned {found: false, nextThreshold}
\* without a limit: break, or go on with the next threshold.
AfterIteration(nextThreshold, n) ==
    IF nextThreshold = Infinity \/ nextThreshold = threshold
    THEN /\ IdaReturn(FALSE, <<>>, n, "exhausted")
         /\ UNCHANGED <<threshold, lastThreshold>>
    ELSE IF threshold = lastThreshold
    THEN /\ IdaReturn(FALSE, <<>>, n, "stalled")
         /\ UNCHANGED <<threshold, lastThreshold>>
    ELSE /\ lastThreshold' = threshold
         /\ threshold' = nextThreshold
         /\ pc' = "ida"
         /\ stack' = <<>>
         /\ UNCHANGED result

\* idaStarSearch(state, isSolved, generateNeighbors, maxDepth) up to the
\* while loop; solveWithBFS calls it for order 2 only.
IdaStart ==
    /\ pc = "moves"
    /\ order = 2
    /\ maxDepth' \in IdaMaxDepths
    /\ nodesExpanded' = 0
    /\ threshold' = heuristic(order, pieces)
    /\ lastThreshold' = -1
    /\ yieldAt' = 0
    /\ clock' = 0
    /\ iteration' = IterationAt(0, 0)
    /\ pc' = "ida"
    /\ UNCHANGED <<order, pieces, path, hist, maxNodes, queue, visited, stack, result,
                   log>>
    /\ UNCHANGED uiVars
    /\ UNCHANGED heapVars

\* The head of the while loop and the root call search(state, 0, threshold,
\* [], null, new Set()).
IdaIterate ==
    /\ pc = "ida"
    /\ IF threshold < MaxThreshold
       THEN \E dt \in Elapses :
              LET n == nodesExpanded + 1
                  now == clock + dt
                  e == SearchEntry(order, pieces, 0, n, {}, now >= MaxTime)
              IN  /\ nodesExpanded' = n
                  /\ clock' = now
                  /\ iteration' = Noted(IterationAt(nodesExpanded, clock), e, pieces)
                  /\ yieldAt' = YieldsAt(e, n)
                  /\ IF e.kind = "limit"
                     THEN /\ IdaReturn(FALSE, <<>>, n, e.limitReached)
                          /\ visited' = {}
                          /\ UNCHANGED <<threshold, lastThreshold>>
                     ELSE IF e.kind = "found"
                     THEN /\ IdaReturn(TRUE, <<>>, n, "found")
                          /\ visited' = {}
                          /\ UNCHANGED <<threshold, lastThreshold>>
                     ELSE IF e.kind = "expand"
                     THEN /\ visited' = {encode(pieces)}
                          /\ stack' = <<Frame(clone(pieces), 0, <<>>, NoMove,
                                              generateNeighbors(order, pieces, NoMove))>>
                          /\ pc' = "search"
                          /\ UNCHANGED <<threshold, lastThreshold, result>>
                     ELSE /\ visited' = {}
                          /\ AfterIteration(e.nextThreshold, n)
       ELSE /\ IdaReturn(FALSE, <<>>, nodesExpanded, "threshold")
            /\ UNCHANGED <<visited, nodesExpanded, threshold, lastThreshold, yieldAt,
                           clock, iteration>>
    /\ UNCHANGED <<order, pieces, path, hist, maxDepth, maxNodes, queue, log>>
    /\ UNCHANGED uiVars
    /\ UNCHANGED heapVars

\* The stack with its innermost call replaced.
WithTop(frame) == [stack EXCEPT ![Len(stack)] = frame]

\* One pass of the for loop of the innermost call: the recursive call on the
\* next neighbour, up to its return or to its own for loop.
IdaDescend ==
    /\ pc = "search"
    /\ stack[Len(stack)].todo # <<>>
    /\ LET top == stack[Len(stack)]
           nb == Head(top.todo)
           rest == [top EXCEPT !.todo = Tail(top.todo)]
       IN  IF top.lastMove # NoMove /\ top.lastMove.axis = nb.move.axis
              /\ top.lastMove.slice = nb.move.slice /\ top.lastMove.dir = -nb.move.dir
           THEN /\ stack' = WithTop(rest)
                /\ UNCHANGED <<pc, visited, nodesExpanded, result, yieldAt, clock,
                               iteration>>
           ELSE \E dt \in Elapses :
                  LET n == nodesExpanded + 1
                      now == clock + dt
                      e == SearchEntry(order, nb.state, top.g + 1, n, visited,
                                       now >= MaxTime)
                  IN  /\ nodesExpanded' = n
                      /\ clock' = now
                      /\ iteration' = Noted(iteration, e, nb.state)
                      /\ yieldAt' = YieldsAt(e, n)
                      /\ IF e.kind = "limit"
                         THEN /\ IdaReturn(FALSE, <<>>, n, e.limitReached)
                              /\ UNCHANGED visited
                         ELSE IF e.kind = "found"
                         THEN /\ IdaReturn(TRUE, Append(top.path, nb.move), n, "found")
                              /\ UNCHANGED visited
                         ELSE IF e.kind = "expand"
                         THEN /\ visited' = visited \cup {encode(nb.state)}
                              /\ stack' = Append(WithTop(rest),
                                    Frame(nb.state, top.g + 1, Append(top.path, nb.move),
                                          nb.move,
                                          generateNeighbors(order, nb.state, nb.move)))
                              /\ UNCHANGED <<pc, result>>
                         ELSE /\ stack' = WithTop([rest EXCEPT !.minThreshold =
                                                Min(rest.minThreshold, e.nextThreshold)])
                              /\ UNCHANGED <<pc, visited, result>>
    /\ UNCHANGED <<order, pieces, path, hist, maxDepth, maxNodes, queue,
                   threshold, lastThreshold, log>>
    /\ UNCHANGED uiVars
    /\ UNCHANGED heapVars

\* The innermost call has tried every neighbour and returns {found: false,
\* nextThreshold: minThreshold}, to its caller or to the while loop.
IdaUnwind ==
    /\ pc = "search"
    /\ stack[Len(stack)].todo = <<>>
    /\ IF Len(stack) > 1
       THEN LET top == stack[Len(stack)]
                parent == stack[Len(stack) - 1]
            IN  /\ stack' = [SubSeq(stack, 1, Len(stack) - 1) EXCEPT ![Len(stack) - 1] =
                        [parent EXCEPT !.minThreshold =
                            Min(parent.minThreshold, top.minThreshold)]]
                /\ UNCHANGED <<pc, threshold, lastThreshold, result>>
       ELSE AfterIteration(stack[1].minThreshold, nodesExpanded)
    /\ UNCHANGED <<order, pieces, path, hist, maxDepth, maxNodes, queue, visited,
                   nodesExpanded, yieldAt, log>>
    /\ UNCHANGED uiVars
    /\ UNCHANGED <<clock, iteration>>
    /\ UNCHANGED heapVars

NextIDA ==
    \/ Scramble
    \/ IdaStart
    \/ IdaIterate
    \/ IdaDescend
    \/ IdaUnwind

SpecIDA == InitSearch /\ [][NextIDA]_vars

\* ------------------------------------------------------- a deeper search
\* idaStarSearch called with a maxDepth that lets it expand states two moves
\* from the start, on an order-2 cube one scramble move from solved, and
\* followed for its first MaxDeepNodes calls of search().

\* The maxDepth of these runs and the number of calls of search() followed.
DeepMaxDepth == 3
MaxDeepNodes == 400

\* The state idaStarSearch is in when it reaches its while loop.
InitDeep ==
    /\ order = 2
    /\ \E i \in DOMAIN ScrambleMoves(2) :
          LET m == ScrambleMoves(2)[i]
          IN  /\ pieces = applyMove(CubeState(2), m.axis, m.slice, m.dir)
              /\ path = <<m>>
              /\ hist = <<CubeState(2)>>
              /\ threshold = heuristic(2, applyMove(CubeState(2), m.axis, m.slice, m.dir))
    /\ pc = "ida"
    /\ maxDepth = DeepMaxDepth
    /\ maxNodes = 0
    /\ queue = <<>>
    /\ visited = {}
    /\ nodesExpanded = 0
    /\ lastThreshold = -1
    /\ stack = <<>>
    /\ result = NoResult
    /\ yieldAt = 0
    /\ clock = 0
    /\ iteration = IterationAt(0, 0)
    /\ log = <<>>
    /\ UiIdle
    /\ HeapIdle

DeepOn ==
    /\ nodesExpanded < MaxDeepNodes
    /\ (IdaIterate \/ IdaDescend \/ IdaUnwind)

NextDeep == DeepOn

SpecDeep == InitDeep /\ [][NextDeep]_vars

\* ------------------------------------------- a search near maxThreshold
\* idaStarSearch called with maxDepth 1 on an order-4 cube turned so far
\* that heuristic() is 12, 14 or 15.

\* Turns of three parallel slices on x and of two on y.
FarScramble ==
    <<Move("x", -3, 1), Move("x", -1, 1), Move("x", 1, 1),
      Move("y", -3, 1), Move("y", -1, 1)>>

\* The shortest prefix of FarScramble a search starts from.
MinFarMoves == 3

\* applyMove for each move of the sequence in turn.
RECURSIVE Applied(_, _)
Applied(ps, moves) ==
    IF moves = <<>> THEN ps
    ELSE Applied(applyMove(ps, Head(moves).axis, Head(moves).slice, Head(moves).dir),
                 Tail(moves))

\* The state idaStarSearch is in when it reaches its while loop.
InitFar ==
    /\ order = 4
    /\ \E k \in MinFarMoves..Len(FarScramble) :
          /\ pieces = Applied(CubeState(4), SubSeq(FarScramble, 1, k))
          /\ path = SubSeq(FarScramble, 1, k)
          /\ threshold = heuristic(4, Applied(CubeState(4), SubSeq(FarScramble, 1, k)))
    /\ hist = <<>>
    /\ pc = "ida"
    /\ maxDepth = 1
    /\ maxNodes = 0
    /\ queue = <<>>
    /\ visited = {}
    /\ nodesExpanded = 0
    /\ lastThreshold = -1
    /\ stack = <<>>
    /\ result = NoResult
    /\ yieldAt = 0
    /\ clock = 0
    /\ iteration = IterationAt(0, 0)
    /\ log = <<>>
    /\ UiIdle
    /\ HeapIdle

NextFar ==
    \/ IdaIterate
    \/ IdaDescend
    \/ IdaUnwind

SpecFar == InitFar /\ [][NextFar]_vars

\* ------------------------------------------------- one search after another
\* solveWithBFS hands on result.moves when it is not null (an empty array
\* counts), and null otherwise.
solveWithBFSReturnsStats(r) ==
    IF r.found THEN [solved |-> TRUE, moves |-> r.moves]
    ELSE [solved |-> FALSE, moves |-> <<r.depth, r.nodesExpanded>>]

solveWithBFSReturns(r) ==
    IF r.found THEN [solved |-> TRUE, moves |-> r.moves]
    ELSE [solved |-> FALSE, moves |-> <<>>]

\* An order-2 cube, solved or one scramble move away from the solved state.
InitRetry ==
    /\ order = 2
    /\ \/ /\ pieces = CubeState(2)
          /\ path = <<>>
          /\ hist = <<>>
       \/ \E i \in DOMAIN ScrambleMoves(2) :
             LET m == ScrambleMoves(2)[i]
             IN  /\ pieces = applyMove(CubeState(2), m.axis, m.slice, m.dir)
                 /\ path = <<m>>
                 /\ hist = <<CubeState(2)>>
    /\ pc = "moves"
    /\ SearchIdle
    /\ log = <<>>
    /\ UiIdle
    /\ HeapIdle

\* bfsSolve has returned: the caller keeps the value and is free to search
\* the same state again, with the same or with other options.
Retry ==
    /\ pc = "done"
    /\ maxNodes > 0
    /\ log = <<>>
    /\ log' = Append(log, result)
    /\ pc' = "moves"
    /\ maxDepth' = 0
    /\ maxNodes' = 0
    /\ queue' = <<>>
    /\ visited' = {}
    /\ nodesExpanded' = 0
    /\ result' = NoResult
    /\ yieldAt' = 0
    /\ clock' = 0
    /\ iteration' = IterationAt(0, 0)
    /\ UNCHANGED <<order, pieces, path, hist, threshold, lastThreshold, stack>>
    /\ UNCHANGED uiVars
    /\ UNCHANGED heapVars

NextRetry ==
    \/ BfsStart
    \/ BfsFound
    \/ BfsDepthLimit
    \/ BfsNodeLimit
    \/ BfsExpand
    \/ BfsExhausted
    \/ IdaStart
    \/ IdaIterate
    \/ IdaDescend
    \/ IdaUnwind
    \/ Retry

SpecRetry == InitRetry /\ [][NextRetry]_vars

\* ------------------------------------------------------------ solveWithBFS
\* BFS_CONFIG.maxDepth[order] || 20 and BFS_CONFIG.maxNodes[order] || 100000.
BfsConfigMaxDepth(o) ==
    IF o = 2 THEN 14 ELSE IF o = 3 THEN 22 ELSE IF o = 4 THEN 8
    ELSE IF o = 5 THEN 10 ELSE 20

BfsConfigMaxNodes(o) ==
    IF o = 2 THEN 500000 ELSE IF o = 3 THEN 1000000 ELSE IF o = 4 THEN 50000
    ELSE 100000

\* Most nodes a search started by solveWithBFS is followed for.
MaxNodesFollowed == 12

\* solveWithBFSEntry without the isAlreadySolved test.
solveWithBFSEntryUnchecked(o, ps) == IF o = 2 THEN "ida" ELSE "bfs"

\* The branch solveWithBFS takes on startState: it returns [] at once when
\* the clone of startState is solved, and otherwise runs idaStarSearch for
\* order 2 and bfsSolve for every other order.
solveWithBFSEntry(o, ps) ==
    IF isSolved(o, clone(ps)) THEN "solved" ELSE IF o = 2 THEN "ida" ELSE "bfs"

\* The value solveWithBFS returns without a search: the empty array.
AlreadySolved == [solved |-> TRUE, moves |-> <<>>]

\* solveWithBFS(startState, order, type) up to its return of [] or to the
\* loop of the search it calls; log takes the value it returns.
solveWithBFS ==
    /\ pc = "moves"
    /\ log = <<>>
    /\ LET currentState == clone(pieces)
           entry == solveWithBFSEntry(order, pieces)
       IN  IF entry = "solved"
           THEN /\ log' = Append(log, AlreadySolved)
                /\ pc' = "done"
                /\ UNCHANGED searchVars
           ELSE IF entry = "ida"
           THEN /\ maxDepth' = BfsConfigMaxDepth(order)
                /\ nodesExpanded' = 0
                /\ threshold' = heuristic(order, currentState)
                /\ lastThreshold' = -1
                /\ yieldAt' = 0
                /\ clock' = 0
                /\ iteration' = IterationAt(0, 0)
                /\ pc' = "ida"
                /\ UNCHANGED <<maxNodes, queue, visited, stack, result, log>>
           ELSE /\ maxDepth' = BfsConfigMaxDepth(order)
                /\ maxNodes' = BfsConfigMaxNodes(order)
                /\ queue' = <<[state |-> clone(currentState), moves |-> <<>>,
                               depth |-> 0]>>
                /\ visited' = {encode(currentState)}
                /\ nodesExpanded' = 0
                /\ yieldAt' = 0
                /\ pc' = "bfs"
                /\ UNCHANGED <<threshold, lastThreshold, stack, result, log, clock,
                               iteration>>
    /\ UNCHANGED <<order, pieces, path, hist>>
    /\ UNCHANGED uiVars
    /\ UNCHANGED heapVars

\* The search solveWithBFS called goes on by one step, for as long as it is
\* followed.
SearchOn ==
    /\ nodesExpanded < MaxNodesFollowed
    /\ \/ IdaIterate
       \/ IdaDescend
       \/ IdaUnwind
       \/ BfsFound
       \/ BfsDepthLimit
       \/ BfsNodeLimit
       \/ BfsExpand
       \/ BfsExhausted

\* The search has returned: solveWithBFS returns result.moves or null.
solveWithBFSReturn ==
    /\ pc = "done"
    /\ result # NoResult
    /\ log = <<>>
    /\ log' = Append(log, solveWithBFSReturns(result))
    /\ UNCHANGED <<order, pieces, path, hist, pc>>
    /\ UNCHANGED searchVars
    /\ UNCHANGED uiVars
    /\ UNCHANGED heapVars

NextSolve ==
    \/ Scramble
    \/ solveWithBFS
    \/ SearchOn
    \/ solveWithBFSReturn

SpecSolve == InitSearch /\ [][NextSolve]_vars

\* ---------------------------------------------------------------- the page
\* The page: the buttons (scramble, solve), the animation loop (animate,
\* processQueue) and the calls of solve() that are under way.  order is
\* STATE.order and pieces is currentCubeState.pieces.  A search is followed
\* here from its start state to the first neighbour of that state only, and
\* may return at either; SpecBFS and SpecIDA have the searches in full.

\* progress += CONFIG.animSpeed reaches 1.0 on the fourth frame of a move
\* (animSpeed: 0.25).
FramesPerMove == 4

\* CubeState.clone as to object identity: the clone has a new object for
\* every piece, so it shares no piece with its source.  The pieces of a
\* state are owned by currentCubeState ("live") or by a copy.
cloneOwnerShared(owner) == owner

cloneOwner(owner) == "copy"

\* A call of solve(): where it is suspended, the state the search examines
\* (node, reached from the start state by moves, its pieces owned by owner),
\* and whether a scramble or solve request has arrived since its search
\* began.
Call(at, node, moves, owner, interrupted, solution) ==
    [pc |-> at, node |-> node, moves |-> moves, owner |-> owner,
     interrupted |-> interrupted, solution |-> solution]

InitUI ==
    /\ order \in Orders
    /\ pieces = CubeState(order)
    /\ path = <<>>
    /\ hist = <<>>
    /\ pc = "page"
    /\ SearchIdle
    /\ log = <<>>
    /\ UiIdle
    /\ HeapIdle

\* The move lists scramble() may draw: two moves in place of the 10 to 15
\* of scrambleLengths, a move of ScrambleMoves and the one that follows it.
\* slices holds every i from -range to range, so for an odd order one draw
\* begins with a turn of the middle layer.
ScrambleDraws(o) ==
    {<<ScrambleMoves(o)[i], ScrambleMoves(o)[(i % Len(ScrambleMoves(o))) + 1]>> :
        i \in DOMAIN ScrambleMoves(o)}
    \cup (IF o % 2 = 1 THEN {<<Move("x", 0, 1), ScrambleMoves(o)[2]>>} ELSE {})

\* A request arrives: every search that is under way has been interrupted.
Interrupt(cs) ==
    [i \in DOMAIN cs |->
        IF cs[i].pc = "search" THEN [cs[i] EXCEPT !.interrupted = TRUE] ELSE cs[i]]

\* scramble(): refused while a move is animated or queued; otherwise
\* currentCubeState is replaced by a solved state and the moves are pushed.
scramble ==
    /\ pc = "page"
    /\ requests < MaxRequests
    /\ ~isAnimating
    /\ moveQueue = <<>>
    /\ \E ms \in ScrambleDraws(order) :
          /\ moveQueue' = ms
          /\ enqueued' = enqueued \o ms
          /\ memoryStack' = ms
    /\ pieces' = CubeState(order)
    /\ calls' = Interrupt(calls)
    /\ requests' = requests + 1
    /\ UNCHANGED <<order, path, hist, pc, log, isAnimating, currentMove, progress,
                   applied, meshes, activeGroup>>
    /\ UNCHANGED searchVars
    /\ UNCHANGED heapVars

\* solve() up to its first await: it returns at once while a move is
\* animated, waits 50 ms while moves are queued, and otherwise waits 100 ms
\* before it looks at the state.
solve ==
    /\ pc = "page"
    /\ requests < MaxRequests
    /\ ~isAnimating
    /\ calls' = Append(Interrupt(calls),
                       Call(IF moveQueue # <<>> THEN "wait" ELSE "settle",
                            <<>>, <<>>, "none", FALSE, <<>>))
    /\ requests' = requests + 1
    /\ UNCHANGED <<order, pieces, path, hist, pc, log, moveQueue, isAnimating,
                   currentMove, progress, enqueued, applied>>
    /\ UNCHANGED searchVars
    /\ UNCHANGED <<meshes, activeGroup, memoryStack>>
    /\ UNCHANGED heapVars

\* The 50 ms timer of the while loop of solve() fires and the loop ends.
SolveWake(i) ==
    /\ calls[i].pc = "wait"
    /\ ~(isAnimating \/ moveQueue # <<>>)
    /\ calls' = [calls EXCEPT ![i].pc = "settle"]
    /\ UNCHANGED <<order, pieces, path, hist, pc, log, moveQueue, isAnimating,
                   currentMove, progress, enqueued, applied, requests>>
    /\ UNCHANGED searchVars
    /\ UNCHANGED <<meshes, activeGroup, memoryStack>>
    /\ UNCHANGED heapVars

\* The 100 ms timer of solve() fires: solve() returns if the state is
\* solved, and otherwise calls solveWithBFS(currentCubeState.clone(), ...),
\* which searches from startState.clone().
SolveSettled(i) ==
    /\ calls[i].pc = "settle"
    /\ calls' = [calls EXCEPT ![i] =
                    IF isSolved(order, pieces)
                    THEN Call("returned", <<>>, <<>>, "none", FALSE, <<>>)
                    ELSE Call("search", clone(clone(pieces)), <<>>,
                              cloneOwner(cloneOwner("live")), FALSE, <<>>)]
    /\ UNCHANGED <<order, pieces, path, hist, pc, log, moveQueue, isAnimating,
                   currentMove, progress, enqueued, applied, requests>>
    /\ UNCHANGED searchVars
    /\ UNCHANGED <<meshes, activeGroup, memoryStack>>
    /\ UNCHANGED heapVars

\* The search goes on from its start state to the first neighbour:
\* generateNeighbors clones the node and applies the move to the clone.  The
\* move changes currentCubeState too if the clone's pieces are its pieces.
SearchStep(i) ==
    /\ calls[i].pc = "search"
    /\ calls[i].moves = <<>>
    /\ LET c == calls[i]
           nb == generateNeighbors(order, c.node, LastMoveOf(c.moves))[1]
       IN  /\ calls' = [calls EXCEPT ![i] =
                          Call("search", nb.state, Append(c.moves, nb.move),
                               cloneOwner(c.owner), c.interrupted, <<>>)]
           /\ pieces' = IF cloneOwner(c.owner) = "live" THEN nb.state ELSE pieces
    /\ UNCHANGED <<order, path, hist, pc, log, moveQueue, isAnimating,
                   currentMove, progress, enqueued, applied, requests>>
    /\ UNCHANGED searchVars
    /\ UNCHANGED <<meshes, activeGroup, memoryStack>>
    /\ UNCHANGED heapVars

\* The search returns, with the moves to its node if isSolved() accepts the
\* node and with null otherwise; solve() pushes a solution that is not empty.
SearchReturn(i) ==
    /\ calls[i].pc = "search"
    /\ LET c == calls[i]
           solution == IF isSolved(order, c.node) THEN c.moves ELSE <<>>
       IN  /\ calls' = [calls EXCEPT ![i] =
                          Call("returned", c.node, c.moves, c.owner, c.interrupted,
                               solution)]
           /\ moveQueue' = moveQueue \o solution
           /\ enqueued' = enqueued \o solution
           /\ memoryStack' = IF solution # <<>> THEN <<>> ELSE memoryStack
    /\ UNCHANGED <<order, pieces, path, hist, pc, log, isAnimating, currentMove,
                   progress, applied, requests, meshes, activeGroup>>
    /\ UNCHANGED searchVars
    /\ UNCHANGED heapVars

\* mesh.userData[axisKey], axisKey being logicX, logicY or (for every other
\* axis) logicZ.
MeshCoord(mesh, axis) ==
    IF axis = "x" THEN mesh.logicX ELSE IF axis = "y" THEN mesh.logicY ELSE mesh.logicZ

\* The logical coordinates of a mesh of activeGroup after the move.
MeshRotated(mesh, axis, dir) ==
    IF axis = "x"
    THEN [mesh EXCEPT !.logicY = IF dir = -1 THEN mesh.logicZ ELSE -mesh.logicZ,
                      !.logicZ = IF dir = -1 THEN -mesh.logicY ELSE mesh.logicY]
    ELSE IF axis = "y"
    THEN [mesh EXCEPT !.logicZ = IF dir = -1 THEN mesh.logicX ELSE -mesh.logicX,
                      !.logicX = IF dir = -1 THEN -mesh.logicZ ELSE mesh.logicZ]
    ELSE IF axis = "z"
    THEN [mesh EXCEPT !.logicX = IF dir = -1 THEN mesh.logicY ELSE -mesh.logicY,
                      !.logicY = IF dir = -1 THEN -mesh.logicX ELSE mesh.logicX]
    ELSE mesh

\* One animation frame: animate() calls processQueue().  A frame that finds
\* the queue empty and isAnimating false changes nothing.  logicCube is
\* updated by the same rule as the meshes and is left out.
processQueue ==
    /\ pc = "page"
    /\ ~(moveQueue = <<>> /\ ~isAnimating)
    /\ IF moveQueue = <<>>
       THEN /\ isAnimating' = FALSE
            /\ UNCHANGED <<pieces, moveQueue, currentMove, progress, applied,
                           meshes, activeGroup>>
       ELSE IF currentMove = NoMove
       THEN /\ currentMove' = Head(moveQueue)
            /\ moveQueue' = Tail(moveQueue)
            /\ isAnimating' = TRUE
            /\ progress' = 0
            /\ activeGroup' = {n \in DOMAIN meshes :
                                  MeshCoord(meshes[n], Head(moveQueue).axis)
                                      = Head(moveQueue).slice}
            /\ UNCHANGED <<pieces, applied, meshes>>
       ELSE IF progress + 1 >= FramesPerMove
       THEN /\ progress' = progress + 1
            /\ meshes' = [n \in DOMAIN meshes |->
                             IF n \in activeGroup
                             THEN MeshRotated(meshes[n], currentMove.axis, currentMove.dir)
                             ELSE meshes[n]]
            /\ pieces' = applyMove(pieces, currentMove.axis, currentMove.slice,
                                   currentMove.dir)
            /\ applied' = Append(applied, currentMove)
            /\ currentMove' = NoMove
            /\ activeGroup' = {}
            /\ UNCHANGED <<moveQueue, isAnimating>>
       ELSE /\ progress' = progress + 1
            /\ UNCHANGED <<pieces, moveQueue, isAnimating, currentMove, applied,
                           meshes, activeGroup>>
    /\ UNCHANGED <<order, path, hist, pc, log, calls, enqueued, requests,
                   memoryStack>>
    /\ UNCHANGED searchVars
    /\ UNCHANGED heapVars

\* The puzzle-type select changes: buildPuzzle(order, type) for another
\* order, or for the other type of order 3 (normal and mirror).  allCubelets,
\* logicCube and currentCubeState are made anew and memoryStack is emptied;
\* moveQueue, currentMove, progress and STATE.isAnimating are left as they
\* are, and the meshes of activeGroup are no longer in allCubelets.
buildPuzzle ==
    /\ pc = "page"
    /\ requests < MaxRequests
    /\ \E o \in Orders :
          /\ o # order \/ order = 3
          /\ order' = o
          /\ pieces' = CubeState(o)
          /\ meshes' = Meshes(o)
    /\ memoryStack' = <<>>
    /\ activeGroup' = {}
    /\ enqueued' = <<>>
    /\ applied' = <<>>
    /\ requests' = requests + 1
    /\ UNCHANGED <<path, hist, pc, log, moveQueue, isAnimating, currentMove, progress,
                   calls>>
    /\ UNCHANGED searchVars
    /\ UNCHANGED heapVars

NextUI ==
    \/ scramble
    \/ solve
    \/ \E i \in DOMAIN calls : SolveWake(i)
    \/ \E i \in DOMAIN calls : SolveSettled(i)
    \/ \E i \in DOMAIN calls : SearchStep(i)
    \/ \E i \in DOMAIN calls : SearchReturn(i)
    \/ processQueue

SpecUI == InitUI /\ [][NextUI]_vars

\* The page with the scramble button and the puzzle-type select in use.
NextRebuild ==
    \/ scramble
    \/ buildPuzzle
    \/ processQueue

SpecRebuild == InitUI /\ [][NextRebuild]_vars

\* ------------------------------- the reverse-scramble solver (part_003)
\* The earlier version of the page kept in src/unnamed/part_003: scramble()
\* remembers its moves in STATE.memoryStack and solve() plays them back,
\* inverted and in reverse.  pieces is logicCube.pieces here, and a piece's
\* quaternion q is given by the directions its own x, y and z axes point in.

UnitX == [x |-> 1, y |-> 0, z |-> 0]
UnitY == [x |-> 0, y |-> 1, z |-> 0]
UnitZ == [x |-> 0, y |-> 0, z |-> 1]

\* new THREE.Quaternion(): the identity.
IdentityQ == <<UnitX, UnitY, UnitZ>>

\* The piece the constructor of VirtualCube pushes for loop indices x, y, z.
VirtualPiece(o, x, y, z) ==
    LET ox == 2 * x - Offset(o)
        oy == 2 * y - Offset(o)
        oz == 2 * z - Offset(o)
    IN  [x |-> ox, y |-> oy, z |-> oz, q |-> IdentityQ,
         ox |-> ox, oy |-> oy, oz |-> oz,
         isCenter |-> (Abs(ox) + Abs(oy) + Abs(oz) = 2)]

\* new VirtualCube(order, type).pieces
VirtualCube(o) ==
    [n \in 1..(o * o * o) |->
        VirtualPiece(o, (n - 1) \div (o * o), ((n - 1) \div o) % o, (n - 1) % o)]

\* v.applyAxisAngle(axisVec, dir * Math.PI / 2), rounded to the grid.
Turned(v, axis, dir) ==
    IF axis = "x" THEN [x |-> v.x, y |-> -dir * v.z, z |-> dir * v.y]
    ELSE IF axis = "y" THEN [x |-> dir * v.z, y |-> v.y, z |-> -dir * v.x]
    ELSE [x |-> -dir * v.y, y |-> dir * v.x, z |-> v.z]

\* calculateNextState(p, axis, dir) followed by commitState(p, nextState):
\* the position is turned, and so is the quaternion (premultiply), which the
\* snap to VALID_QUATERNIONS leaves as it is.
Committed(p, axis, dir) ==
    LET pos == Turned([x |-> p.x, y |-> p.y, z |-> p.z], axis, dir)
    IN  [p EXCEPT !.x = pos.x, !.y = pos.y, !.z = pos.z,
                  !.q = [k \in 1..3 |-> Turned(p.q[k], axis, dir)]]

\* The moves checkAndFixAlignment pushes: none while memoryStack holds moves
\* or while the centre piece of the top face (oy === 1) is in the top layer,
\* and a turn of the whole cube about x otherwise.
checkAndFixAlignment(ps, remembered) ==
    IF remembered # <<>> THEN <<>>
    ELSE IF \E n \in DOMAIN ps : ps[n].oy = 2 /\ ps[n].isCenter /\ ps[n].y # 2
    THEN <<Move("x", 0, 1), Move("x", 2, 1), Move("x", -2, 1)>>
    ELSE <<>>

\* memoryStack.slice().reverse().map(m => ({..., dir: m.dir * -1}))
ReverseInverted(moves) ==
    [i \in DOMAIN moves |->
        Move(moves[Len(moves) + 1 - i].axis, moves[Len(moves) + 1 - i].slice,
             -moves[Len(moves) + 1 - i].dir)]

\* The move lists scramble() may draw: two moves in place of its 20.  For
\* order 3 one draw begins with a turn of a middle layer.
ReverseDraws(o) ==
    ScrambleDraws(o)
        \cup (IF o = 3 THEN {<<Move("z", 0, 1), Move("y", Offset(o), 1)>>} ELSE {})

InitReverse ==
    /\ order \in Orders
    /\ pieces = VirtualCube(order)
    /\ path = <<>>
    /\ hist = <<>>
    /\ pc = "page"
    /\ SearchIdle
    /\ log = <<>>
    /\ UiIdle
    /\ HeapIdle

\* scramble() of part_003
scrambleReverse ==
    /\ pc = "page"
    /\ requests < MaxRequests
    /\ ~isAnimating
    /\ moveQueue = <<>>
    /\ \E ms \in ReverseDraws(order) :
          /\ moveQueue' = ms
          /\ memoryStack' = memoryStack \o ms
          /\ enqueued' = enqueued \o ms
    /\ requests' = requests + 1
    /\ UNCHANGED <<order, pieces, path, hist, pc, log, isAnimating, currentMove,
                   progress, calls, applied, meshes, activeGroup>>
    /\ UNCHANGED searchVars
    /\ UNCHANGED heapVars

\* solve() of part_003; a call that returns at its first line changes
\* nothing.
solveReverse ==
    /\ pc = "page"
    /\ requests < MaxRequests
    /\ ~(isAnimating \/ memoryStack = <<>>)
    /\ moveQueue' = moveQueue \o ReverseInverted(memoryStack)
    /\ enqueued' = enqueued \o ReverseInverted(memoryStack)
    /\ memoryStack' = <<>>
    /\ requests' = requests + 1
    /\ UNCHANGED <<order, pieces, path, hist, pc, log, isAnimating, currentMove,
                   progress, calls, applied, meshes, activeGroup>>
    /\ UNCHANGED searchVars
    /\ UNCHANGED heapVars

\* One animation frame of part_003.  A frame that starts a move goes on to
\* advance it; activeGroup holds the indices of the pieces of the moving
\* slice, whose nextState is worked out when the move is committed (no piece
\* changes between the start of a move and its end).
processQueueReverse ==
    /\ pc = "page"
    /\ ~(moveQueue = <<>> /\ ~isAnimating)
    /\ IF moveQueue = <<>>
       THEN /\ isAnimating' = FALSE
            /\ moveQueue' = checkAndFixAlignment(pieces, memoryStack)
            /\ enqueued' = enqueued \o checkAndFixAlignment(pieces, memoryStack)
            /\ UNCHANGED <<pieces, currentMove, progress, applied, activeGroup>>
       ELSE LET starting == currentMove = NoMove
                move == IF starting THEN Head(moveQueue) ELSE currentMove
                group == IF starting
                         THEN {n \in DOMAIN pieces :
                                 InSlice(pieces[n], move.axis, move.slice)}
                         ELSE activeGroup
                advanced == (IF starting THEN 0 ELSE progress) + 1
            IN  /\ moveQueue' = IF starting THEN Tail(moveQueue) ELSE moveQueue
                /\ isAnimating' = IF starting THEN TRUE ELSE isAnimating
                /\ progress' = advanced
                /\ UNCHANGED enqueued
                /\ IF advanced >= FramesPerMove
                   THEN /\ pieces' = [n \in DOMAIN pieces |->
                                        IF n \in group
                                        THEN Committed(pieces[n], move.axis, move.dir)
                                        ELSE pieces[n]]
                        /\ applied' = Append(applied, move)
                        /\ currentMove' = NoMove
                        /\ activeGroup' = {}
                   ELSE /\ currentMove' = move
                        /\ activeGroup' = group
                        /\ UNCHANGED <<pieces, applied>>
    /\ UNCHANGED <<order, path, hist, pc, log, calls, requests, meshes, memoryStack>>
    /\ UNCHANGED searchVars
    /\ UNCHANGED heapVars

NextReverse ==
    \/ scrambleReverse
    \/ solveReverse
    \/ processQueueReverse

SpecReverse == InitReverse /\ [][NextReverse]_vars

\* ------------------------------------------------- instances on the heap
\* CubeState instances as JavaScript has them: objects holds the piece
\* objects, the faces objects and the originalPos objects that exist, a
\* reference is the index of an object, and an instance is the array of
\* references to its pieces.  applyMove writes to the objects the instance
\* refers to, whoever else refers to them.

\* Most instances, and most applyMove calls on all of them together.
MaxInstances == 2
MaxHeapMoves == 2

NoObjects == [pieces |-> <<>>, faces |-> <<>>, origins |-> <<>>]

\* The piece a reference stands for, with its faces and originalPos read
\* through their references.
ViewPiece(objs, r) ==
    [id |-> objs.pieces[r].id,
     x |-> objs.pieces[r].x, y |-> objs.pieces[r].y, z |-> objs.pieces[r].z,
     originalPos |-> objs.origins[objs.pieces[r].originalPos],
     faces |-> objs.faces[objs.pieces[r].faces]]

\* this.pieces of an instance, read through the references.
View(objs, refs) == [i \in DOMAIN refs |-> ViewPiece(objs, refs[i])]

\* New piece objects with the content of ps, each with a faces object and an
\* originalPos object of its own: the object literals of the constructor and
\* of clone.  The result is the heap and the array of the new references.
Allocated(objs, ps) ==
    [objects |->
        [pieces |-> objs.pieces \o
            [i \in DOMAIN ps |->
                [id |-> ps[i].id, x |-> ps[i].x, y |-> ps[i].y, z |-> ps[i].z,
                 originalPos |-> Len(objs.origins) + i,
                 faces |-> Len(objs.faces) + i]],
         faces |-> objs.faces \o [i \in DOMAIN ps |-> ps[i].faces],
         origins |-> objs.origins \o [i \in DOMAIN ps |-> ps[i].originalPos]],
     pieces |-> [i \in DOMAIN ps |-> Len(objs.pieces) + i]]

\* clone() handing the array of its source to the new instance.
ClonedShared(objs, refs) == [objects |-> objs, pieces |-> refs]

\* clone(): this.pieces.map(p => ({id, x, y, z, originalPos: {...}, faces:
\* {...}})), a new object for every piece, its faces and its originalPos.
Cloned(objs, refs) == Allocated(objs, View(objs, refs))

\* applyMove(axis, slice, dir) on the instance with the pieces refs: the
\* callback of forEach writes x, y, z of each piece object and the entries
\* of its faces object.
AppliedOnHeap(objs, refs, axis, slice, dir) ==
    LET Of(r) == MovePiece(ViewPiece(objs, r), axis, slice, dir)
        used == {refs[i] : i \in DOMAIN refs}
    IN  [pieces |->
            [r \in DOMAIN objs.pieces |->
                IF r \in used
                THEN [objs.pieces[r] EXCEPT !.x = Of(r).x, !.y = Of(r).y, !.z = Of(r).z]
                ELSE objs.pieces[r]],
         faces |->
            [f \in DOMAIN objs.faces |->
                IF \E r \in used : objs.pieces[r].faces = f
                THEN Of(CHOOSE r \in used : objs.pieces[r].faces = f).faces
                ELSE objs.faces[f]],
         origins |-> objs.origins]

\* An instance: its pieces, the instance it was cloned from (0 for the
\* constructed one) and the number of applyMove calls made on it.
Instance(refs, source, n) == [pieces |-> refs, from |-> source, moved |-> n]

InitClone ==
    /\ order \in Orders
    /\ pieces = CubeState(order)
    /\ path = <<>>
    /\ hist = <<>>
    /\ pc = "heap"
    /\ SearchIdle
    /\ log = <<>>
    /\ UiIdle
    /\ objects = Allocated(NoObjects, CubeState(order)).objects
    /\ handles = <<Instance(Allocated(NoObjects, CubeState(order)).pieces, 0, 0)>>

\* some instance is cloned
Clone ==
    /\ pc = "heap"
    /\ Len(handles) < MaxInstances
    /\ \E h \in DOMAIN handles :
          /\ objects' = Cloned(objects, handles[h].pieces).objects
          /\ handles' = Append(handles,
                               Instance(Cloned(objects, handles[h].pieces).pieces, h, 0))
    /\ UNCHANGED <<order, pieces, path, hist, pc, log>>
    /\ UNCHANGED searchVars
    /\ UNCHANGED uiVars

\* applyMove is called on some instance
ApplyMoveOn ==
    /\ pc = "heap"
    /\ Len(path) < MaxHeapMoves
    /\ \E h \in DOMAIN handles : \E i \in DOMAIN ScrambleMoves(order) :
          LET m == ScrambleMoves(order)[i]
          IN  /\ objects' = AppliedOnHeap(objects, handles[h].pieces,
                                           m.axis, m.slice, m.dir)
              /\ handles' = [handles EXCEPT ![h].moved = @ + 1]
              /\ path' = Append(path, m)
    /\ UNCHANGED <<order, pieces, hist, pc, log>>
    /\ UNCHANGED searchVars
    /\ UNCHANGED uiVars

NextClone ==
    \/ Clone
    \/ ApplyMoveOn

SpecClone == InitClone /\ [][NextClone]_vars

\* ------------------------------------------------- vocabulary of the claims
\* The colour the constructor gives the face looking in direction d.
SolvedColour(d) ==
    CASE d = "+X" -> "R" [] d = "-X" -> "L" [] d = "+Y" -> "U"
      [] d = "-Y" -> "D" [] d = "+Z" -> "F" [] d = "-Z" -> "B"

\* The piece lies on the outer boundary of the cube in direction d.
OnBoundary(o, p, d) ==
    CASE d = "+X" -> p.x = Offset(o) [] d = "-X" -> p.x = -Offset(o)
      [] d = "+Y" -> p.y = Offset(o) [] d = "-Y" -> p.y = -Offset(o)
      [] d = "+Z" -> p.z = Offset(o) [] d = "-Z" -> p.z = -Offset(o)

AtHome(p) ==
    p.x = p.originalPos.x /\ p.y = p.originalPos.y /\ p.z = p.originalPos.z

\* Every piece is at its original position and shows, on every boundary
\* direction, the colour of the solved state.
ContentSolved(o, ps) ==
    \A i \in DOMAIN ps :
        /\ AtHome(ps[i])
        /\ \A d \in Directions :
              OnBoundary(o, ps[i], d) => FaceGet(ps[i].faces, d) = SolvedColour(d)

\* The piece of ps with the given id.
PieceById(ps, id) == ps[CHOOSE i \in DOMAIN ps : ps[i].id = id]

Ids(ps) == {ps[i].id : i \in DOMAIN ps}

\* Two states agree on the position of every piece and on the colour every
\* piece shows in every direction (no colour where faces[d] is undefined).
SameContent(a, b) ==
    /\ Ids(a) = Ids(b)
    /\ \A id \in Ids(a) :
          LET p == PieceById(a, id)
              q == PieceById(b, id)
          IN  /\ p.x = q.x /\ p.y = q.y /\ p.z = q.z
              /\ \A d \in Directions : FaceGet(p.faces, d) = FaceGet(q.faces, d)

Inverse(m) == Move(m.axis, m.slice, -m.dir)

\* The last n moves of the path are all the move m.
LastAre(n, m) ==
    /\ Len(path) >= n
    /\ \A i \in (Len(path) - n + 1)..Len(path) : path[i] = m

\* The state as it was n moves ago (n >= 1).
Before(n) == hist[Len(path) - n + 1]

QuarterY == Move("y", 1, 1)

\* The state after the moves have been applied to ps in order.
RECURSIVE ApplyAll(_, _)
ApplyAll(ps, moves) ==
    IF moves = <<>> THEN ps
    ELSE ApplyAll(applyMove(ps, Head(moves).axis, Head(moves).slice, Head(moves).dir),
                  Tail(moves))

\* No move of the sequence is the inverse of the move before it.
NoImmediateInverse(moves) ==
    \A i \in 2..Len(moves) : ~IsInverse(moves[i], moves[i - 1])

\* ------------------------------------------------------------------ claims
\* C1: for a scramble of k moves, none inverting its predecessor, bfsSolve
\* with maxDepth >= k and a node budget it does not use up returns at most
\* k moves, and the scrambled state with those moves applied is solved.
C1_BfsSolvesScramble ==
    (/\ pc = "done"
     /\ NoImmediateInverse(path)
     /\ Len(path) <= maxDepth
     /\ result.nodesExpanded < maxNodes)
        => /\ result.found
           /\ Len(result.moves) <= Len(path)
           /\ isSolved(order, ApplyAll(pieces, result.moves))

\* C1: bfsSolve has returned for a scramble of at least one move within
\* maxDepth, without using up its node budget.
C1_BfsReturned ==
    /\ pc = "done"
    /\ Len(path) >= 1
    /\ NoImmediateInverse(path)
    /\ Len(path) <= maxDepth
    /\ result.nodesExpanded < maxNodes

\* C2: for order 2 and a scramble of at most 4 moves, idaStarSearch ends
\* with success and the scrambled state with the returned moves applied is
\* solved.  Stated for the runs in which the solved position lies within
\* maxDepth and neither the node nor the time budget ended the search.
C2_IdaSolvesScramble ==
    (/\ pc = "done"
     /\ order = 2
     /\ Len(path) <= 4
     /\ Len(path) <= maxDepth
     /\ result.cause \notin {"nodes", "time"})
        => /\ result.found
           /\ isSolved(order, ApplyAll(pieces, result.moves))

\* C2: idaStarSearch has returned for a scramble of at least one move within
\* maxDepth, and no budget ended it.
C2_IdaReturned ==
    /\ pc = "done"
    /\ order = 2
    /\ Len(path) >= 1
    /\ Len(path) <= maxDepth
    /\ result.cause \notin {"nodes", "time"}

\* C3: from the solved order-2 state, one applyMove('y', 0.5, 1) makes
\* isSolved() false and three more of the same move make it true again.
C3_FourTurnsSolved ==
    (order = 2 /\ Len(path) = 4 /\ LastAre(4, QuarterY))
        => (~isSolved(order, Before(3)) /\ isSolved(order, pieces))

\* C3, the part the code satisfies: after the first quarter turn isSolved()
\* is false.
C3_AfterFourTurns ==
    order = 2 /\ Len(path) = 4 /\ LastAre(4, QuarterY) /\ ~isSolved(order, Before(3))

\* C4: isSolved() is true exactly when every piece is at its original
\* position and shows the solved colour on each of its boundary directions.
C4_SolvedIffContent ==
    isSolved(order, pieces) <=> ContentSolved(order, pieces)

\* C4: a state with the content of the solved state that has been moved.
C4_ContentSolvedAfterMoves ==
    Len(path) > 0 /\ ContentSolved(order, pieces)

\* C5: a move followed by its inverse gives back the encode() of the state
\* before the two moves.
C5_InverseRoundTrip ==
    (Len(path) >= 2 /\ path[Len(path)] = Inverse(path[Len(path) - 1]))
        => encode(pieces) = encode(Before(2))

\* C5: a move and then its inverse have been applied.
C5_RoundTripDone ==
    Len(path) >= 2 /\ path[Len(path)] = Inverse(path[Len(path) - 1])

\* C6: the same move four times in a row gives back the encode() of the
\* state before the four moves.
C6_QuarterTurnPeriod ==
    (Len(path) >= 4 /\ LastAre(4, path[Len(path)]))
        => encode(pieces) = encode(Before(4))

\* C6: some move has been applied four times in a row.
C6_FourTimesDone ==
    Len(path) >= 4 /\ LastAre(4, path[Len(path)])

\* C7: two states with the same position and the same colour in every
\* direction for every piece have equal encode() values.
C7_SameContentSameEncode ==
    LET now == encode(pieces)
    IN  \A i \in DOMAIN hist :
            SameContent(hist[i], pieces) => encode(hist[i]) = now

\* C7: the live state has the content of an earlier state.
C7_ContentRepeats ==
    \E i \in DOMAIN hist : SameContent(hist[i], pieces)

\* C8: two reachable states that differ in a position or in the colour
\* facing some direction have different encode() values.
C8_DifferentContentDifferentEncode ==
    LET now == encode(pieces)
    IN  \A i \in DOMAIN hist :
            ~SameContent(hist[i], pieces) => encode(hist[i]) # now

\* C8: the live state differs from an earlier one only in what some pieces
\* show, or only in where some pieces are, after several moves.
C8_StatesDiffer ==
    /\ Len(path) >= MoveLimit(order)
    /\ \E i \in DOMAIN hist : ~SameContent(hist[i], pieces)

\* C9: the positions of the pieces are pairwise distinct and are exactly
\* the order^3 lattice points.
C9_PositionsBijective ==
    /\ {<<pieces[i].x, pieces[i].y, pieces[i].z>> : i \in DOMAIN pieces}
          = LatticeSet(order) \X LatticeSet(order) \X LatticeSet(order)
    /\ \A i, j \in DOMAIN pieces :
          (pieces[i].x = pieces[j].x /\ pieces[i].y = pieces[j].y
              /\ pieces[i].z = pieces[j].z) => i = j
    /\ Len(pieces) = order * order * order

\* C9: moves have been applied and some piece is away from its origin.
C9_PiecesMoved ==
    /\ Len(path) >= MoveLimit(order)
    /\ \E i \in DOMAIN pieces : ~AtHome(pieces[i])

\* C10: a piece shows a colour in a direction exactly when its current
\* position is on the outer boundary in that direction.
C10_ColoursOnBoundaryOnly ==
    \A i \in DOMAIN pieces : \A d \in Directions :
        (FaceGet(pieces[i].faces, d) # Undef) <=> OnBoundary(order, pieces[i], d)

\* C10: a move about the z axis has been applied.
C10_AfterZMove ==
    Len(path) >= 1 /\ path[Len(path)].axis = "z"

\* The number of entries of a faces object that hold the colour c.
ColourCount(faces, c) == Cardinality({i \in DOMAIN faces : faces[i][2] = c})

\* C11: after every sequence of applyMove calls every piece holds, over its
\* orientation entries, each colour as many times as the constructor gave it
\* in the solved state: moves permute a piece's colours among directions and
\* never add, drop or change one.
C11_ColourMultisetKept ==
    \A i \in DOMAIN pieces : \A c \in Colours :
        ColourCount(pieces[i].faces, c) =
            ColourCount(SolvedFaces(order, pieces[i].originalPos.x,
                                    pieces[i].originalPos.y,
                                    pieces[i].originalPos.z), c)

\* Two moves were applied and some colour of some piece sits on a direction
\* other than the one the constructor gave it.
C11_ColoursPermuted ==
    /\ Len(path) >= 2
    /\ \E i \in DOMAIN pieces : \E d \in Directions :
          /\ FaceGet(pieces[i].faces, d) \in Colours
          /\ FaceGet(pieces[i].faces, d) #
                FaceGet(SolvedFaces(order, pieces[i].originalPos.x,
                                    pieces[i].originalPos.y,
                                    pieces[i].originalPos.z), d)

\* The moves of generateLegalMoves(o) as a set.
LegalMoveSet(o) == {generateLegalMoves(o)[i] : i \in DOMAIN generateLegalMoves(o)}

\* C12: one move of generateLegalMoves(order) applied to a freshly constructed
\* solved state gives a state for which isSolved() is false.
C12_OneMoveUnsolves ==
    (/\ Len(path) = 1
     /\ path[1] \in LegalMoveSet(order)
     /\ isSolved(order, Before(1)))
        => ~isSolved(order, pieces)

\* A single legal move was applied to the solved state and moved a piece away
\* from its original position.
C12_OneLegalMoveApplied ==
    /\ Len(path) = 1
    /\ path[1] \in LegalMoveSet(order)
    /\ isSolved(order, Before(1))
    /\ \E i \in DOMAIN pieces : ~AtHome(pieces[i])

BfsRank ==
    Len(queue) + (Len(generateLegalMoves(order)) + 1)
                    * (maxNodes + Len(generateLegalMoves(order)) - nodesExpanded)

YieldBound == 2 * reportInterval(0)

\* C19: the search awaits the host event loop at least once in every
\* YieldBound consecutive node expansions; YieldBound is twice the interval
\* of 100 nodes that bfsSolve uses for its first 1000 nodes.
C19_YieldsEveryN ==
    pc \in {"bfs", "ida", "search"} => nodesExpanded - yieldAt <= YieldBound

\* bfsSolve has counted more than YieldBound nodes and has not awaited once.
C19_NoYieldSoFar ==
    /\ pc = "bfs"
    /\ nodesExpanded > YieldBound
    /\ yieldAt = 0

\* The sequences of n moves of generateLegalMoves(o) in which no move
\* inverts the one before it.
RECURSIVE FilteredPaths(_, _)
FilteredPaths(o, n) ==
    IF n = 0 THEN {<<>>}
    ELSE {t \in {Append(s, m) : s \in FilteredPaths(o, n - 1), m \in LegalMoveSet(o)} :
             NoImmediateInverse(t)}

ReturnValue(r) ==
    [found |-> r.found, moves |-> r.moves, depth |-> r.depth,
     nodesExpanded |-> r.nodesExpanded]

\* The searches that have failed so far: the kept one and the last one.
Failures ==
    {log[i] : i \in {j \in DOMAIN log : ~log[j].found}}
        \cup (IF pc = "done" /\ ~result.found THEN {result} ELSE {})

Searching == {i \in DOMAIN calls : calls[i].pc = "search"}

\* C15: at every moment at most one search is running; a solve request that
\* arrives while a search is suspended at an await starts no second search.
C15_OneSearchAtATime == Cardinality(Searching) <= 1

\* Two calls of solve() each have a search under way.
C15_TwoSearches == Cardinality(Searching) >= 2

\* C16: a search that was under way when a scramble or solve request arrived
\* halts at its next suspension point: it does not go on to its return.
C16_RequestHaltsSearch ==
    \A i \in DOMAIN calls : calls[i].interrupted => calls[i].pc # "returned"

\* A search that a scramble interrupted (currentCubeState was replaced while
\* it ran) has gone on and returned.
C16_InterruptedSearchReturned ==
    \E i \in DOMAIN calls :
        /\ calls[i].interrupted
        /\ calls[i].pc = "returned"
        /\ requests > Len(calls)

C18_QueuedMovesApplied ==
    (moveQueue = <<>> /\ ~isAnimating) => applied = enqueued

\* The queue is empty and the animation has stopped with a move still in
\* currentMove, and no further frame changes anything.
C18_LastMoveStuck ==
    /\ moveQueue = <<>>
    /\ ~isAnimating
    /\ currentMove # NoMove
    /\ applied # enqueued
    /\ ~ENABLED processQueue

C22_InvalidMovesRejected ==
    \A i \in DOMAIN path :
        path[i].axis \in {"x", "y", "z"} /\ path[i].slice \in LatticeSet(order)

\* applyMove has returned normally for a move that is no move of the cube,
\* after a move that changed the state, and has left every piece as it was.
C22_InvalidMoveAccepted ==
    /\ Len(path) >= 2
    /\ path[Len(path)] \in OtherMoves(order)
    /\ path[Len(path) - 1] \notin OtherMoves(order)
    /\ pieces = Before(1)

\* Every piece of currentCubeState is where the mesh with its id is.
SameAsDisplayed ==
    \A i \in DOMAIN pieces : \A n \in DOMAIN meshes :
        meshes[n].pieceId = pieces[i].id
            => /\ pieces[i].x = meshes[n].logicX
               /\ pieces[i].y = meshes[n].logicY
               /\ pieces[i].z = meshes[n].logicZ

\* C23: whenever no move is in flight and the move queue is empty, every
\* piece of currentCubeState is at the position of the displayed mesh with
\* the same id, after any sequence of scramble and solve requests.
C23_LogicMatchesDisplay ==
    (moveQueue = <<>> /\ ~isAnimating) => SameAsDisplayed

\* After a second scramble the queue is empty again, no move is animated and
\* some piece of currentCubeState is not where its mesh is.
C23_DisplayDiverged ==
    /\ moveQueue = <<>>
    /\ ~isAnimating
    /\ Len(enqueued) >= 4
    /\ Len(applied) >= 3
    /\ ~SameAsDisplayed

\* Every piece of logicCube is at its original position with the identity
\* rotation.
LogicCubeSolved ==
    \A n \in DOMAIN pieces :
        /\ pieces[n].x = pieces[n].ox
        /\ pieces[n].y = pieces[n].oy
        /\ pieces[n].z = pieces[n].oz
        /\ pieces[n].q = IdentityQ

\* The number of moves of one scramble.
ScrambleLength(o) == Len(CHOOSE ms \in ReverseDraws(o) : TRUE)

\* One scramble of the solved cube and then one solve() have been requested.
ScrambledThenSolved == requests = 2 /\ memoryStack = <<>> /\ enqueued # <<>>

\* C24: in the reverse-scramble solver, after scramble() has enqueued moves
\* m1..mk on a solved cube and solve() has been requested once the cube was
\* idle, the solution enqueued is the k inverted moves in reverse order, and
\* when the queue has drained the logic cube is in the solved configuration.
C24_ReverseScrambleSolves ==
    ScrambledThenSolved
        => /\ SubSeq(enqueued, ScrambleLength(order) + 1, 2 * ScrambleLength(order))
                = ReverseInverted(SubSeq(enqueued, 1, ScrambleLength(order)))
           /\ (moveQueue = <<>> /\ ~isAnimating) => LogicCubeSolved

\* The queue has drained after scramble and solve, the inverse of the first
\* scramble move is still in currentMove and the logic cube is not solved.
C24_DrainedUnsolved ==
    /\ ScrambledThenSolved
    /\ moveQueue = <<>>
    /\ ~isAnimating
    /\ currentMove = Inverse(enqueued[1])
    /\ ~LogicCubeSolved

\* The unit vector of a direction, as a position.
DirVec(d) ==
    CASE d = "+X" -> [x |-> 1, y |-> 0, z |-> 0] [] d = "-X" -> [x |-> -1, y |-> 0, z |-> 0]
      [] d = "+Y" -> [x |-> 0, y |-> 1, z |-> 0] [] d = "-Y" -> [x |-> 0, y |-> -1, z |-> 0]
      [] d = "+Z" -> [x |-> 0, y |-> 0, z |-> 1] [] d = "-Z" -> [x |-> 0, y |-> 0, z |-> -1]

\* The direction the position rotation of a move carries the direction d to.
CarriedTo(d, axis, dir) ==
    CHOOSE e \in Directions :
        <<DirVec(e).x, DirVec(e).y, DirVec(e).z>> = RotatePosition(DirVec(d), axis, dir)

\* The last move carried every colour of the pieces it moved along with the
\* positions, as far as the axes of the set go.
ColoursCarried(axes) ==
    Len(path) >= 1 /\ path[Len(path)].axis \in axes
        => \A i \in DOMAIN pieces : \A d \in Directions :
              (/\ InSlice(Before(1)[i], path[Len(path)].axis, path[Len(path)].slice)
               /\ OnBoundary(order, Before(1)[i], d)
               /\ FaceGet(Before(1)[i].faces, d) \in Colours)
                  => FaceGet(pieces[i].faces,
                             CarriedTo(d, path[Len(path)].axis, path[Len(path)].dir))
                        = FaceGet(Before(1)[i].faces, d)

\* C25: for every axis and both directions applyMove moves colours in the
\* rotational sense of the positions: when the position rotation carries a
\* piece from the boundary in direction d to the boundary in direction d',
\* the colour that faced d before the move faces d' after it.
C25_ColoursFollowPositions == ColoursCarried({"x", "y", "z"})

\* C25 for the axes x and y alone.
C25_ColoursFollowPositionsXY == ColoursCarried({"x", "y"})

\* One move about z was applied to the solved state, and a piece it carried
\* from the boundary in direction d to the one in direction d' does not show
\* there the colour it showed in direction d.
C25_ColourLeftBehind ==
    /\ Len(path) = 1
    /\ path[1].axis = "z"
    /\ \E i \in DOMAIN pieces : \E d \in Directions :
          /\ InSlice(Before(1)[i], "z", path[1].slice)
          /\ OnBoundary(order, Before(1)[i], d)
          /\ OnBoundary(order, pieces[i], CarriedTo(d, "z", path[1].dir))
          /\ FaceGet(pieces[i].faces, CarriedTo(d, "z", path[1].dir))
                # FaceGet(Before(1)[i].faces, d)

\* The two directions along an axis.
Along(axis) ==
    IF axis = "x" THEN {"+X", "-X"} ELSE IF axis = "y" THEN {"+Y", "-Y"} ELSE {"+Z", "-Z"}

\* C26: applyMove(axis, slice, dir) leaves every piece whose coordinate on
\* axis differs from slice unchanged in position and in every orientation
\* entry, and leaves the pieces it moves with the coordinate on axis and the
\* two entries for the directions along axis they had.
C26_MoveFrame ==
    Len(path) >= 1
        => \A i \in DOMAIN pieces :
              LET m == path[Len(path)]
                  old == Before(1)[i]
              IN  IF Coord(old, m.axis) # m.slice
                  THEN pieces[i] = old
                  ELSE /\ Coord(pieces[i], m.axis) = Coord(old, m.axis)
                       /\ pieces[i].id = old.id
                       /\ pieces[i].originalPos = old.originalPos
                       /\ \A d \in Along(m.axis) :
                             /\ FaceGet(pieces[i].faces, d) = FaceGet(old.faces, d)
                             /\ d \in FaceKeys(pieces[i].faces) <=> d \in FaceKeys(old.faces)

\* After two moves or more, the last move has changed some piece and has
\* passed over another that the move before it had changed.
C26_SomeMovedSomeNot ==
    /\ Len(path) >= 2
    /\ \E i, j \in DOMAIN pieces :
          /\ pieces[i] # Before(1)[i]
          /\ Coord(Before(1)[j], path[Len(path)].axis) # path[Len(path)].slice
          /\ pieces[j] # Before(2)[j]

\* C27: clone() returns a state with the encode() of its source, and an
\* applyMove call on one instance leaves encode() and isSolved() of every
\* other instance as they were, whether the call is made on a clone or on
\* its source.
C27_CloneIndependent ==
    /\ [][Len(handles') > Len(handles)
            => encode(View(objects', handles'[Len(handles')].pieces))
                  = encode(View(objects, handles[handles'[Len(handles')].from].pieces))]_vars
    /\ [][\A h \in DOMAIN handles :
            handles'[h].moved = handles[h].moved
                => /\ encode(View(objects', handles'[h].pieces))
                        = encode(View(objects, handles[h].pieces))
                   /\ isSolved(order, View(objects', handles'[h].pieces))
                        = isSolved(order, View(objects, handles[h].pieces))]_vars

\* applyMove has been called on a clone and on its source, and the two have
\* different encode() values.
C27_BothMoved ==
    \E h \in DOMAIN handles :
        /\ handles[h].from # 0
        /\ handles[h].moved >= 1
        /\ handles[handles[h].from].moved >= 1
        /\ encode(View(objects, handles[h].pieces))
              # encode(View(objects, handles[handles[h].from].pieces))

\* The moves the claim counts: every axis, every lattice coordinate but the
\* 0 of an odd order, both directions.
CountedMoves(o) ==
    {Move(Axes[a], c, d) : a \in 1..3,
                           c \in LatticeSet(o) \ (IF o % 2 = 1 THEN {0} ELSE {}),
                           d \in {1, -1}}

\* C28: generateLegalMoves(order) returns exactly one move for each axis,
\* each lattice coordinate on it and each direction, leaving out the
\* coordinate 0 for an odd order: 6 * order moves for an even order and
\* 6 * (order - 1) for an odd one, every slice a lattice coordinate.
C28_LegalMovesExact ==
    (pc = "generated" /\ log = <<>>)
        => /\ {path[i] : i \in DOMAIN path} = CountedMoves(order)
           /\ \A i, j \in DOMAIN path : path[i] = path[j] => i = j
           /\ Len(path) = IF order % 2 = 0 THEN 6 * order ELSE 6 * (order - 1)
           /\ \A i \in DOMAIN path : path[i].slice \in LatticeSet(order)

\* generateLegalMoves has returned for an odd order with more than one layer.
C28_GeneratedForOdd ==
    /\ pc = "generated"
    /\ log = <<>>
    /\ order % 2 = 1
    /\ order > 1
    /\ path # <<>>

\* The sequence with every occurrence of the move left out, the others in
\* their order.
RECURSIVE Without(_, _)
Without(moves, m) ==
    IF moves = <<>> THEN <<>>
    ELSE IF Head(moves) = m THEN Without(Tail(moves), m)
    ELSE <<Head(moves)>> \o Without(Tail(moves), m)

\* What the claim has filterMoves return: all moves when there is no
\* lastMove, otherwise all but the move of its axis and slice in the
\* opposite direction.
KeptMoves(moves, lastMove) ==
    IF lastMove = NoMove THEN moves
    ELSE Without(moves, Move(lastMove.axis, lastMove.slice, -lastMove.dir))

\* The moves of a list of neighbours, in its order.
MovesOf(neighbors) == [i \in DOMAIN neighbors |-> neighbors[i].move]

\* C29: the neighbours a call of search() is given are the legal moves
\* without the exact inverse of its lastMove (same axis and slice, opposite
\* direction), the others kept in order and all of them when there is no
\* lastMove; and no path that search() is called with, that a call of
\* search() holds, that bfsSolve has queued or that either search returns
\* contains a move immediately followed by its inverse.
C29_NoImmediateUndo ==
    /\ [][(pc' = "search" /\ stack' # <<>>
           /\ Len(stack') > (IF pc = "search" THEN Len(stack) ELSE 0))
            => LET f == stack'[Len(stack')]
               IN  MovesOf(f.todo) = KeptMoves(generateLegalMoves(order), f.lastMove)]_vars
    /\ [][(pc = "search" /\ nodesExpanded' # nodesExpanded)
            => LET top == stack[Len(stack)]
               IN  NoImmediateInverse(Append(top.path, Head(top.todo).move))]_vars
    /\ [](\A i \in DOMAIN stack : NoImmediateInverse(stack[i].path))
    /\ [](\A i \in DOMAIN queue : NoImmediateInverse(queue[i].moves))
    /\ []((result.returned /\ result.found) => NoImmediateInverse(result.moves))

\* bfsSolve has returned after queueing paths of two moves, and
\* idaStarSearch, run next on the same state, is inside a call of search()
\* that was given a lastMove and has called search() for some of its
\* neighbours, each with a path of two moves.
C29_PathsOfTwoMoves ==
    /\ log # <<>>
    /\ log[1].nodesExpanded > Len(generateLegalMoves(order))
    /\ pc = "search"
    /\ stack # <<>>
    /\ stack[Len(stack)].lastMove # NoMove
    /\ Len(stack[Len(stack)].path) = 1
    /\ Len(stack[Len(stack)].todo) < Len(generateLegalMoves(order)) - 2

\* C30: idaStarSearch gives up with limit 'nodes' only when the nodes
\* expanded during the current threshold iteration reach the node budget,
\* and with limit 'time' only when the time spent in the current iteration
\* reaches the time budget; earlier iterations do not count.
C30_BudgetsPerIteration ==
    (pc = "done" /\ result.returned)
        => /\ result.cause = "nodes"
                => nodesExpanded - iteration.nodes >= IdaMaxNodes
           /\ result.cause = "time"
                => clock - iteration.time >= MaxTime

\* idaStarSearch has given up for the time limit in a second or later
\* iteration, in which less than the time budget was spent.
C30_EarlierTimeCounted ==
    /\ pc = "done"
    /\ result.returned
    /\ result.cause = "time"
    /\ iteration.nodes > 0
    /\ iteration.time > 0
    /\ clock - iteration.time < MaxTime

Least(S) == CHOOSE x \in S : \A y \in S : x <= y

\* The root call of search() is about to return to the while loop with
\* neither a solution nor a limit.
IterationEnds ==
    /\ pc = "search"
    /\ Len(stack) = 1
    /\ stack[1].todo = <<>>

\* C31: when an iteration of idaStarSearch with threshold T ends without a
\* solution and without hitting a budget, the threshold of the next
\* iteration is the least f = g + h of the calls pruned for f > T in that
\* iteration, so the thresholds of successive iterations strictly increase.
C31_NextThresholdIsMinPruned ==
    /\ [][(pc \in {"ida", "search"} /\ threshold' # threshold)
            => /\ iteration'.pruned # {}
               /\ \A f \in iteration'.pruned : f > threshold
               /\ threshold' = Least(iteration'.pruned)
               /\ threshold' > threshold]_vars
    /\ [][(IterationEnds /\ iteration.pruned # {})
            => /\ threshold' = Least(iteration.pruned)
               /\ pc' # "done"]_vars

\* A second or later iteration is under way with a threshold above the
\* one before it, and has pruned a call itself.
C31_ThresholdRaised ==
    /\ pc = "search"
    /\ iteration.nodes > 0
    /\ lastThreshold >= 0
    /\ threshold > lastThreshold
    /\ iteration.pruned # {}

\* C32: each pass of the while loop of idaStarSearch starts with an empty
\* transposition set, so that a state expanded in an earlier pass can be
\* expanded again, and within one pass no encoded state is expanded more
\* than once.
C32_TranspositionSetPerIteration ==
    /\ [][(pc = "ida" /\ nodesExpanded' # nodesExpanded)
            => /\ visited' \subseteq {encode(pieces)}
               /\ pc' = "search" => iteration'.expanded = <<encode(pieces)>>]_vars
    /\ [](\A i, j \in DOMAIN iteration.expanded :
              iteration.expanded[i] = iteration.expanded[j] => i = j)
    /\ [](pc = "search" => visited = {iteration.expanded[i] : i \in DOMAIN iteration.expanded})

\* In a second or later pass the start state, expanded in the pass before,
\* has been expanded again, and the search is inside the call for a state
\* two moves away from it.
C32_ExpandedAgain ==
    /\ pc = "search"
    /\ iteration.nodes > 0
    /\ iteration.expanded # <<>>
    /\ iteration.expanded[1] = encode(pieces)
    /\ Len(stack) >= 3

\* The threshold the while loop of idaStarSearch was about to search when
\* it gave up: the one it held at its head, or the one the pass just ended
\* would have handed on.
NextThreshold ==
    IF result.cause = "threshold" THEN threshold
    ELSE IF iteration.pruned = {} THEN Infinity
    ELSE Least(iteration.pruned)

\* The threshold searched last before NextThreshold.
SearchedLast == IF result.cause = "threshold" THEN lastThreshold ELSE threshold

NodeBudget == IF pc = "bfs" THEN maxNodes ELSE IdaMaxNodes

\* C34: whichever algorithm solveWithBFS selects, the search it starts is
\* bounded by BFS_CONFIG.maxNodes of the order: that is the number the
\* search compares its node count with, and once the count has reached it
\* no further node is counted.
C34_ConfiguredNodeBudget ==
    /\ [](pc \in {"bfs", "ida", "search"} => NodeBudget = BfsConfigMaxNodes(order))
    /\ [][(pc \in {"bfs", "ida", "search"}
           /\ nodesExpanded >= BfsConfigMaxNodes(order))
            => nodesExpanded' = nodesExpanded]_vars

\* solveWithBFS has started idaStarSearch on an order-2 cube, calls of
\* search() have been counted, and the count is compared with a number that
\* is not BFS_CONFIG.maxNodes[2].
C34_OtherBudgetInForce ==
    /\ order = 2
    /\ pc = "search"
    /\ maxDepth = BfsConfigMaxDepth(2)
    /\ nodesExpanded > 0
    /\ NodeBudget # BfsConfigMaxNodes(2)

\* C35: after buildPuzzle(order, type) the authoritative state is the solved
\* state of the new order and stays so until a move enqueued after the
\* rebuild is applied: the moves applied to it are the first of the moves
\* enqueued since the rebuild, never one queued or in flight before it.
C35_RebuildStartsAfresh ==
    /\ Len(applied) <= Len(enqueued)
    /\ \A i \in DOMAIN applied : i <= Len(enqueued) /\ applied[i] = enqueued[i]
    /\ enqueued = <<>> => pieces = CubeState(order)

\* No move has been enqueued since the puzzle was rebuilt, yet a move has
\* been applied to the new state, which is no longer the solved state.
C35_OldMoveApplied ==
    /\ requests >= 2
    /\ enqueued = <<>>
    /\ applied # <<>>
    /\ pieces # CubeState(order)

\* The direction keys of the plane perpendicular to the axis.
PlaneKeys(axis) ==
    IF axis = "x" THEN {"+Y", "-Y", "+Z", "-Z"}
    ELSE IF axis = "y" THEN {"+X", "-X", "+Z", "-Z"}
    ELSE {"+X", "-X", "+Y", "-Y"}

\* C36: applyMove never removes a direction key from a piece's faces map:
\* the keys a piece holds, those with the value undefined included, are all
\* still held after any move, and after a move on axis a every piece of the
\* moved slice holds the four keys of the plane perpendicular to a.
C36_FaceKeysOnlyGrow ==
    [][(pc = "moves" /\ Len(path') = Len(path) + 1)
        => LET m == path'[Len(path')]
           IN  \A i \in DOMAIN pieces :
                  /\ FaceKeys(pieces[i].faces) \subseteq FaceKeys(pieces'[i].faces)
                  /\ InSlice(pieces[i], m.axis, m.slice)
                        => PlaneKeys(m.axis) \subseteq FaceKeys(pieces'[i].faces)]_vars

\* Moves on two axes have left a piece with all six keys, one or more of
\* them with the value undefined.
C36_SixKeysHeld ==
    /\ Len(path) >= 2
    /\ \E i \in DOMAIN pieces :
          /\ Cardinality(FaceKeys(pieces[i].faces)) = 6
          /\ \E k \in FaceKeys(pieces[i].faces) : FaceGet(pieces[i].faces, k) = Undef

\* C37: whenever STATE.isAnimating is false and moveQueue is empty, no move
\* is in flight: currentMove is null and every move dequeued so far has been
\* applied to currentCubeState.
C37_IdleMeansNothingInFlight ==
    (~isAnimating /\ moveQueue = <<>>)
        => /\ currentMove = NoMove
           /\ applied = enqueued

\* The page is idle by its flags, isAnimating false and moveQueue empty,
\* while the move dequeued last is still the currentMove and has not been
\* applied.
C37_IdleWithMoveInFlight ==
    /\ ~isAnimating
    /\ moveQueue = <<>>
    /\ currentMove # NoMove
    /\ enqueued # <<>>
    /\ currentMove = enqueued[Len(enqueued)]
    /\ Len(applied) = Len(enqueued) - 1

\* C38: every move scramble() can enqueue for the current order is a member
\* of generateLegalMoves(order), so that the scrambled state and the solved
\* state are joined by moves the solver explores.
C38_ScrambleDrawsLegalMoves ==
    \A i \in DOMAIN memoryStack : memoryStack[i] \in LegalMoveSet(order)

\* scramble() on an order-3 cube has enqueued a turn of the middle layer,
\* which generateLegalMoves(3) does not hold, and processQueue has applied
\* it to currentCubeState.
C38_MiddleLayerScrambled ==
    /\ order = 3
    /\ memoryStack # <<>>
    /\ memoryStack[1].slice = 0
    /\ memoryStack[1] \notin LegalMoveSet(order)
    /\ applied # <<>>
    /\ applied[Len(applied)] = memoryStack[1]
    /\ pieces # CubeState(order)

====
